---- MODULE Spec2Model ----
(***************************************************************************)
(* Model of the resource-monitor metrics pipeline: the bounded history     *)
(* buffer (storage.rs), the RPC service reads and long-poll (rpc.rs), the  *)
(* HTTP gateway reads (api.rs) and the bus subscriber that feeds the       *)
(* buffer and the broadcast relay (bus.rs).                                *)
(*                                                                         *)
(* An Option<T> is a sequence of length at most one: <<>> is None and      *)
(* <<x>> is Some(x).  A MetricsSnapshot is the record [id, ts]: ts is      *)
(* timestamp_ms and id tells apart snapshots that carry the same ts.       *)
(***************************************************************************)
EXTENDS Integers, Sequences, FiniteSets, TLC

VARIABLES
    capacity,   \* MetricsBuffer.capacity
    inner,      \* MetricsBuffer.inner: the VecDeque, oldest first
    pushed,     \* history variable: every snapshot ever passed to push, in order
    ret,        \* the last completed sequential call: operation, arguments, result
    lock,       \* the RwLock of MetricsBuffer.inner: [w |-> write guard held, r |-> holders of read guards]
    committed,  \* history variable: inner as of the last moment no write guard was held
    wr,         \* the writer thread inside push
    rd,         \* the reader threads inside latest / history
    now,        \* elapsed time in ms
    relay,      \* the broadcast channel: every snapshot sent, in send order
    pub,        \* the bus subscriber closure: between buf.push and stream_tx.send
    na,         \* the next_after calls in flight, per caller
    sam,        \* Aggregator::run: its locals between loop iterations
    published,  \* history variable: every snapshot passed to publish_snapshot, in order
    cancelled,  \* the CancellationToken
    receivers,  \* number of live Receiver handles of the broadcast channel
    sse,        \* the GET /api/stream streams, per client
    str,        \* run_rpc_client_streamer: its locals and position
    pol,        \* run_rpc_client_poller: its locals and position
    rpcsrv,     \* run_rpc_server: its position
    web,        \* the client's HTTP listener (client.rs main)
    conn        \* the RPC server's connections: requests queued, in service, answered

vars == <<capacity, inner, pushed, ret, lock, committed, wr, rd, now, relay, pub, na,
          sam, published, cancelled, receivers, sse, str, pol, rpcsrv, web, conn>>

bufVars == <<capacity, inner, pushed, ret>>
lockVars == <<lock, committed, wr, rd>>
rpcVars == <<now, relay, pub, na>>
samVars == <<sam, published, cancelled, receivers>>
sseVars == <<sse>>
cliVars == <<str, pol, rpcsrv, web, conn>>

----------------------------------------------------------------------------
(* Bounds of the model *)

MaxCap == 2         \* capacities 0..MaxCap
MaxPush == 3        \* pushes per behaviour
MaxTs == 1          \* timestamps 0..MaxTs
MaxLimit == 1       \* limit arguments 0..MaxLimit

Capacities == 0..MaxCap
TsSet == 0..MaxTs
OptLimits == {<<>>} \cup {<<n>> : n \in 0..MaxLimit}
OptTs == {<<>>} \cup {<<t>> : t \in TsSet}

Min(a, b) == IF a <= b THEN a ELSE b
Max(a, b) == IF a >= b THEN a ELSE b

----------------------------------------------------------------------------
(* Iterator and VecDeque helpers *)

\* Iterator::skip(n): drops the first n elements
RECURSIVE Skip(_, _)
Skip(q, n) == IF n <= 0 \/ q = <<>> THEN q ELSE Skip(Tail(q), n - 1)

\* VecDeque::pop_front: removes the first element, a no-op on an empty deque
PopFront(q) == IF q = <<>> THEN q ELSE Tail(q)

\* VecDeque::back().cloned()
Back(q) == IF q = <<>> THEN <<>> ELSE <<q[Len(q)]>>

\* Option<usize>::unwrap_or
UnwrapOr(opt, d) == IF opt = <<>> THEN d ELSE opt[1]

\* Vec::retain / Iterator::filter with the predicate timestamp_ms >= since_ms
RECURSIVE RetainSince(_, _)
RetainSince(v, since) ==
    IF v = <<>> THEN <<>>
    ELSE IF v[1].ts >= since THEN <<v[1]>> \o RetainSince(Tail(v), since)
    ELSE RetainSince(Tail(v), since)

\* Iterator::filter with the predicate timestamp_ms <= until_ms
RECURSIVE FilterUntil(_, _)
FilterUntil(v, until) ==
    IF v = <<>> THEN <<>>
    ELSE IF v[1].ts <= until THEN <<v[1]>> \o FilterUntil(Tail(v), until)
    ELSE FilterUntil(Tail(v), until)

----------------------------------------------------------------------------
(* MetricsBuffer (storage.rs), as functions of the deque under the guard *)

BufPushEvictNewest(q, cap, s) ==
    Append(IF Len(q) >= cap /\ q # <<>> THEN SubSeq(q, 1, Len(q) - 1) ELSE q, s)

\* MetricsBuffer::push
BufPush(q, cap, s) ==
    LET g == IF Len(q) >= cap THEN PopFront(q) ELSE q
    IN Append(g, s)

BufLatestOldest(q) == IF q = <<>> THEN <<>> ELSE <<q[1]>>

\* MetricsBuffer::latest
BufLatest(q) == Back(q)

BufHistoryPrefix(q, limit) ==
    SubSeq(q, 1, Min(UnwrapOr(limit, Len(q)), Len(q)))

\* MetricsBuffer::history
BufHistory(q, limit) ==
    LET len == Len(q)
        take == Min(UnwrapOr(limit, len), len)
    IN Skip(q, len - take)

----------------------------------------------------------------------------
(* RPC service reads (rpc.rs) and HTTP gateway reads (api.rs) *)

\* MetricsRpcServer::latest
RpcLatest(q) == BufLatest(q)

RpcHistoryTruncateFirst(q, limit, since) ==
    LET v == BufHistory(q, limit)
    IN IF since # <<>> THEN RetainSince(v, since[1]) ELSE v

\* MetricsRpcServer::history
RpcHistory(q, limit, since) ==
    LET v0 == BufHistory(q, <<>>)
        v1 == IF since # <<>> THEN RetainSince(v0, since[1]) ELSE v0
    IN IF limit # <<>>
       THEN LET len == Len(v1)
                take == Min(limit[1], len)
            IN Skip(v1, len - take)
       ELSE v1

GetLatestEmptyOk(q) == [status |-> 200, body |-> BufLatest(q), error |-> ""]

\* api.rs get_latest: the response
GetLatest(q) ==
    LET l == BufLatest(q)
    IN IF l # <<>>
       THEN [status |-> 200, body |-> l, error |-> ""]
       ELSE [status |-> 404, body |-> <<>>, error |-> "no data yet"]

HealthWhileRunning ==
    IF cancelled THEN [status |-> 503, body |-> <<>>, error |-> "shutting down"]
    ELSE [status |-> 200, body |-> <<[status |-> "ok"]>>, error |-> ""]

\* api.rs health: the response
Health == [status |-> 200, body |-> <<[status |-> "ok"]>>, error |-> ""]

GetHistoryExclusiveUntil(q, limit, since, until) ==
    LET h0 == BufHistory(q, <<>>)
        h1 == IF since # <<>> THEN RetainSince(h0, since[1]) ELSE h0
        h2 == IF until # <<>> THEN FilterUntil(h1, until[1] - 1) ELSE h1
        h3 == IF limit # <<>> THEN Skip(h2, Len(h2) - Min(limit[1], Len(h2))) ELSE h2
    IN [status |-> 200, body |-> h3, error |-> ""]

GetHistoryStrictSince(q, limit, since, until) ==
    LET h0 == BufHistory(q, <<>>)
        h1 == IF since # <<>> THEN RetainSince(h0, since[1] + 1) ELSE h0
        h2 == IF until # <<>> THEN FilterUntil(h1, until[1]) ELSE h1
        h3 == IF limit # <<>> THEN Skip(h2, Len(h2) - Min(limit[1], Len(h2))) ELSE h2
    IN [status |-> 200, body |-> h3, error |-> ""]

\* api.rs get_history: the response
GetHistory(q, limit, since, until) ==
    LET h0 == BufHistory(q, <<>>)
        h1 == IF since # <<>> THEN RetainSince(h0, since[1]) ELSE h0
        h2 == IF until # <<>> THEN FilterUntil(h1, until[1]) ELSE h1
        h3 == IF limit # <<>>
              THEN LET len == Len(h2)
                       take == Min(limit[1], len)
                   IN Skip(h2, len - take)
              ELSE h2
    IN [status |-> 200, body |-> h3, error |-> ""]

----------------------------------------------------------------------------
(* Sequential use of the buffer: one call at a time, each recorded in ret *)

Snapshot(i, t) == [id |-> i, ts |-> t]

Call(op, args, val, status, error) ==
    [op |-> op, args |-> args, val |-> val, status |-> status, error |-> error]

LockIdle == [w |-> FALSE, r |-> {}]
WriterIdle == [pc |-> "idle", snap |-> <<>>]
PubIdle == [pc |-> "idle", snap |-> <<>>]
NoReply == [kind |-> "", snap |-> <<>>]
StrIdle == [pc |-> "idle", client |-> <<>>, since_ms |-> 0, handed |-> <<>>,
            conns |-> 0, calls |-> 0, resp |-> NoReply, err_at |-> -1, sleep_until |-> 0,
            cancel_at |-> -1, cancel_in |-> "", stopped_at |-> -1]
PolIdle == [pc |-> "idle", client |-> <<>>, handed |-> <<>>, conns |-> 0, ticks |-> 0,
            tick_conns |-> 0, tick_calls |-> 0, resp |-> NoReply]
SamIdle == [pc |-> "idle", interval |-> 1, next_tick |-> 0, is_first |-> TRUE,
            last_time |-> 0, last_rx_total |-> 0, last_tx_total |-> 0,
            send |-> "", failed |-> FALSE, skipped |-> 0, dt |-> 0, late |-> 0,
            ticked_at |-> 0]

\* MetricsBuffer::new(capacity); nothing else is running
Init ==
    /\ capacity \in Capacities
    /\ inner = <<>>
    /\ pushed = <<>>
    /\ ret = Call("new", <<capacity>>, <<>>, 0, "")
    /\ lock = LockIdle
    /\ committed = <<>>
    /\ wr = WriterIdle
    /\ rd = <<>>
    /\ now = 0
    /\ relay = <<>>
    /\ pub = PubIdle
    /\ na = <<>>
    /\ sam = SamIdle
    /\ published = <<>>
    /\ cancelled = FALSE
    /\ receivers = 1
    /\ sse = <<>>
    /\ str = StrIdle
    /\ pol = PolIdle
    /\ rpcsrv = "idle"
    /\ web = "idle"
    /\ conn = <<>>

\* buf.push(snapshot)
Push(t) ==
    /\ Len(pushed) < MaxPush
    /\ LET s == Snapshot(Len(pushed) + 1, t)
       IN /\ inner' = BufPush(inner, capacity, s)
          /\ pushed' = Append(pushed, s)
          /\ ret' = Call("push", <<s>>, <<>>, 0, "")
    /\ UNCHANGED capacity
    /\ UNCHANGED <<lockVars, rpcVars>>
    /\ UNCHANGED <<samVars, sseVars>>
    /\ UNCHANGED cliVars

\* buf.latest()
Latest ==
    /\ ret' = Call("latest", <<>>, BufLatest(inner), 0, "")
    /\ UNCHANGED <<capacity, inner, pushed>>
    /\ UNCHANGED <<lockVars, rpcVars>>
    /\ UNCHANGED <<samVars, sseVars>>
    /\ UNCHANGED cliVars

HistoryDrain(limit) ==
    /\ ret' = Call("history", <<limit>>, BufHistory(inner, limit), 0, "")
    /\ inner' = SubSeq(inner, 1, Len(inner) - Len(BufHistory(inner, limit)))
    /\ UNCHANGED <<capacity, pushed>>
    /\ UNCHANGED <<lockVars, rpcVars>>
    /\ UNCHANGED <<samVars, sseVars>>
    /\ UNCHANGED cliVars

\* buf.history(limit)
History(limit) ==
    /\ ret' = Call("history", <<limit>>, BufHistory(inner, limit), 0, "")
    /\ UNCHANGED <<capacity, inner, pushed>>
    /\ UNCHANGED <<lockVars, rpcVars>>
    /\ UNCHANGED <<samVars, sseVars>>
    /\ UNCHANGED cliVars

\* RPC latest()
ServeRpcLatest ==
    /\ ret' = Call("rpc_latest", <<>>, RpcLatest(inner), 0, "")
    /\ UNCHANGED <<capacity, inner, pushed>>
    /\ UNCHANGED <<lockVars, rpcVars>>
    /\ UNCHANGED <<samVars, sseVars>>
    /\ UNCHANGED cliVars

\* RPC history(limit, since_ms)
ServeRpcHistory(limit, since) ==
    /\ ret' = Call("rpc_history", <<limit, since>>, RpcHistory(inner, limit, since), 0, "")
    /\ UNCHANGED <<capacity, inner, pushed>>
    /\ UNCHANGED <<lockVars, rpcVars>>
    /\ UNCHANGED <<samVars, sseVars>>
    /\ UNCHANGED cliVars

\* GET /api/metrics
ServeGetLatest ==
    /\ LET resp == GetLatest(inner)
       IN ret' = Call("get_latest", <<>>, resp.body, resp.status, resp.error)
    /\ UNCHANGED <<capacity, inner, pushed>>
    /\ UNCHANGED <<lockVars, rpcVars>>
    /\ UNCHANGED <<samVars, sseVars>>
    /\ UNCHANGED cliVars

\* GET /api/history?limit&since_ms&until_ms
ServeGetHistory(limit, since, until) ==
    /\ LET resp == GetHistory(inner, limit, since, until)
       IN ret' = Call("get_history", <<limit, since, until>>, resp.body, resp.status, resp.error)
    /\ UNCHANGED <<capacity, inner, pushed>>
    /\ UNCHANGED <<lockVars, rpcVars>>
    /\ UNCHANGED <<samVars, sseVars>>
    /\ UNCHANGED cliVars

NextBuf ==
    \/ \E t \in TsSet : Push(t)
    \/ Latest
    \/ \E limit \in OptLimits : History(limit)
    \/ ServeRpcLatest
    \/ \E limit \in OptLimits, since \in OptTs : ServeRpcHistory(limit, since)
    \/ ServeGetLatest
    \/ \E limit \in OptLimits, since \in OptTs, until \in OptTs :
           ServeGetHistory(limit, since, until)

Spec == Init /\ [][NextBuf]_vars

----------------------------------------------------------------------------
(* Concurrent use of the buffer: one writer thread in push, reader threads  *)
(* in latest / history, each step under the RwLock guard it holds.          *)

Readers == {"r1", "r2"}

ReaderIdle == [pc |-> "idle", op |-> "", limit |-> <<>>, pos |-> 0, end |-> 0,
               acc |-> <<>>, win |-> {}]

\* what a read returns when it runs alone on the deque q
ReadOn(q, op, limit) == IF op = "latest" THEN BufLatest(q) ELSE BufHistory(q, limit)

\* readers between their call and their return
Reading(r) == rd[r].pc \notin {"idle", "done"}

InitLock ==
    /\ capacity \in Capacities
    /\ inner = <<>>
    /\ pushed = <<>>
    /\ ret = Call("new", <<capacity>>, <<>>, 0, "")
    /\ lock = LockIdle
    /\ committed = <<>>
    /\ wr = WriterIdle
    /\ rd = [r \in Readers |-> ReaderIdle]
    /\ now = 0
    /\ relay = <<>>
    /\ pub = PubIdle
    /\ na = <<>>
    /\ sam = SamIdle
    /\ published = <<>>
    /\ cancelled = FALSE
    /\ receivers = 1
    /\ sse = <<>>
    /\ str = StrIdle
    /\ pol = PolIdle
    /\ rpcsrv = "idle"
    /\ web = "idle"
    /\ conn = <<>>

\* the writer enters push(snapshot)
WCall ==
    /\ wr.pc = "idle"
    /\ Len(pushed) < MaxPush
    /\ wr' = [pc |-> "acquire", snap |-> <<Snapshot(Len(pushed) + 1, 0)>>]
    /\ UNCHANGED <<capacity, inner, pushed, ret, lock, committed, rd>>
    /\ UNCHANGED rpcVars
    /\ UNCHANGED <<samVars, sseVars>>
    /\ UNCHANGED cliVars

\* self.inner.write(): granted when no guard is held
WAcquire ==
    /\ wr.pc = "acquire"
    /\ ~lock.w
    /\ lock.r = {}
    /\ lock' = [lock EXCEPT !.w = TRUE]
    /\ wr' = [wr EXCEPT !.pc = "trim"]
    /\ UNCHANGED <<capacity, inner, pushed, ret, committed, rd>>
    /\ UNCHANGED rpcVars
    /\ UNCHANGED <<samVars, sseVars>>
    /\ UNCHANGED cliVars

\* if guard.len() >= self.capacity { guard.pop_front(); }
WTrim ==
    /\ wr.pc = "trim"
    /\ inner' = IF Len(inner) >= capacity THEN PopFront(inner) ELSE inner
    /\ wr' = [wr EXCEPT !.pc = "push_back"]
    /\ UNCHANGED <<capacity, pushed, ret, lock, committed, rd>>
    /\ UNCHANGED rpcVars
    /\ UNCHANGED <<samVars, sseVars>>
    /\ UNCHANGED cliVars

\* guard.push_back(snapshot)
WPushBack ==
    /\ wr.pc = "push_back"
    /\ inner' = Append(inner, wr.snap[1])
    /\ pushed' = Append(pushed, wr.snap[1])
    /\ wr' = [wr EXCEPT !.pc = "release"]
    /\ UNCHANGED <<capacity, ret, lock, committed, rd>>
    /\ UNCHANGED rpcVars
    /\ UNCHANGED <<samVars, sseVars>>
    /\ UNCHANGED cliVars

\* the write guard is dropped at the end of push: the push takes effect for readers
WRelease ==
    /\ wr.pc = "release"
    /\ lock' = [lock EXCEPT !.w = FALSE]
    /\ committed' = inner
    /\ rd' = [r \in Readers |->
                IF Reading(r)
                THEN [rd[r] EXCEPT !.win = @ \cup {ReadOn(inner, rd[r].op, rd[r].limit)}]
                ELSE rd[r]]
    /\ wr' = WriterIdle
    /\ UNCHANGED <<capacity, inner, pushed, ret>>
    /\ UNCHANGED rpcVars
    /\ UNCHANGED <<samVars, sseVars>>
    /\ UNCHANGED cliVars

\* a reader enters latest() or history(limit)
RCall(r, op, limit) ==
    /\ rd[r].pc = "idle"
    /\ rd' = [rd EXCEPT ![r] = [ReaderIdle EXCEPT !.pc = "acquire", !.op = op, !.limit = limit,
                                                  !.win = {ReadOn(committed, op, limit)}]]
    /\ UNCHANGED <<capacity, inner, pushed, ret, lock, committed, wr>>
    /\ UNCHANGED rpcVars
    /\ UNCHANGED <<samVars, sseVars>>
    /\ UNCHANGED cliVars

RAcquireUnguarded(r) ==
    /\ rd[r].pc = "acquire"
    /\ lock' = [lock EXCEPT !.r = @ \cup {r}]
    /\ rd' = [rd EXCEPT ![r].pc = "read"]
    /\ UNCHANGED <<capacity, inner, pushed, ret, committed, wr>>
    /\ UNCHANGED rpcVars
    /\ UNCHANGED <<samVars, sseVars>>
    /\ UNCHANGED cliVars

\* self.inner.read(): granted when no write guard is held
RAcquire(r) ==
    /\ rd[r].pc = "acquire"
    /\ ~lock.w
    /\ lock' = [lock EXCEPT !.r = @ \cup {r}]
    /\ rd' = [rd EXCEPT ![r].pc = "read"]
    /\ UNCHANGED <<capacity, inner, pushed, ret, committed, wr>>
    /\ UNCHANGED rpcVars
    /\ UNCHANGED <<samVars, sseVars>>
    /\ UNCHANGED cliVars

\* latest: guard.back().cloned(); history: len, take and the skip of the iterator
RRead(r) ==
    /\ rd[r].pc = "read"
    /\ IF rd[r].op = "latest"
       THEN rd' = [rd EXCEPT ![r].acc = Back(inner), ![r].pc = "release"]
       ELSE LET len == Len(inner)
                take == Min(UnwrapOr(rd[r].limit, len), len)
            IN rd' = [rd EXCEPT ![r].pos = len - take + 1, ![r].end = len, ![r].pc = "iter"]
    /\ UNCHANGED <<capacity, inner, pushed, ret, lock, committed, wr>>
    /\ UNCHANGED rpcVars
    /\ UNCHANGED <<samVars, sseVars>>
    /\ UNCHANGED cliVars

\* history: one step of .cloned().collect()
RIter(r) ==
    /\ rd[r].pc = "iter"
    /\ IF rd[r].pos <= rd[r].end /\ rd[r].pos <= Len(inner)
       THEN rd' = [rd EXCEPT ![r].acc = Append(@, inner[rd[r].pos]), ![r].pos = @ + 1]
       ELSE rd' = [rd EXCEPT ![r].pc = "release"]
    /\ UNCHANGED <<capacity, inner, pushed, ret, lock, committed, wr>>
    /\ UNCHANGED rpcVars
    /\ UNCHANGED <<samVars, sseVars>>
    /\ UNCHANGED cliVars

\* the read guard is dropped and the result returned
RRelease(r) ==
    /\ rd[r].pc = "release"
    /\ lock' = [lock EXCEPT !.r = @ \ {r}]
    /\ rd' = [rd EXCEPT ![r].pc = "done"]
    /\ UNCHANGED <<capacity, inner, pushed, ret, committed, wr>>
    /\ UNCHANGED rpcVars
    /\ UNCHANGED <<samVars, sseVars>>
    /\ UNCHANGED cliVars

\* the caller takes the result; the thread may read again
RReturn(r) ==
    /\ rd[r].pc = "done"
    /\ rd' = [rd EXCEPT ![r] = ReaderIdle]
    /\ UNCHANGED <<capacity, inner, pushed, ret, lock, committed, wr>>
    /\ UNCHANGED rpcVars
    /\ UNCHANGED <<samVars, sseVars>>
    /\ UNCHANGED cliVars

NextLock ==
    \/ WCall
    \/ WAcquire
    \/ WTrim
    \/ WPushBack
    \/ WRelease
    \/ \E r \in Readers : RCall(r, "latest", <<>>)
    \/ \E r \in Readers, limit \in OptLimits : RCall(r, "history", limit)
    \/ \E r \in Readers : RAcquire(r)
    \/ \E r \in Readers : RRead(r)
    \/ \E r \in Readers : RIter(r)
    \/ \E r \in Readers : RRelease(r)
    \/ \E r \in Readers : RReturn(r)

SpecLock == InitLock /\ [][NextLock]_vars

----------------------------------------------------------------------------
(* The long-poll next_after (rpc.rs) against the bus subscriber (bus.rs)    *)
(* that pushes to the buffer and then sends on the broadcast relay.         *)
(* Time is counted in ms; ctx.deadline and the tokio timer read one clock.  *)

RelayCap == 1       \* capacity of the broadcast channel, scaled down
MaxPublish == 2     \* snapshots published per behaviour
MaxTime == 2        \* the clock runs 0..MaxTime
MaxTimeout == 2     \* timeout_ms arguments 0..MaxTimeout

Callers == {"c1"}

NaIdle == [pc |-> "idle", since |-> 0, timeout |-> 0, deadline |-> 0, called |-> 0,
           latest0 |-> <<>>, wait |-> 0, until |-> 0, sub |-> -1, rx |-> 0,
           lagged |-> FALSE, got |-> <<>>, ret |-> <<>>, path |-> "", doneAt |-> 0,
           tail |-> 0]

NextAfterEntryNoFloor(q, tnow, since, timeout, deadline) ==
    LET until_deadline == IF deadline >= tnow THEN deadline - tnow ELSE 0
        wait == Min(timeout, until_deadline)
        latest == BufLatest(q)
    IN IF until_deadline = 0 THEN [kind |-> "none", val |-> <<>>, wait |-> 0]
       ELSE IF wait = 0 THEN [kind |-> "none", val |-> <<>>, wait |-> 0]
       ELSE IF latest # <<>> /\ latest[1].ts > since
            THEN [kind |-> "fast", val |-> latest, wait |-> wait]
       ELSE [kind |-> "wait", val |-> <<>>, wait |-> wait]

NextAfterEntryFastFirst(q, tnow, since, timeout, deadline) ==
    LET until_deadline == IF deadline >= tnow THEN deadline - tnow ELSE 0
        want_timeout == Max(timeout, 1)
        wait == Min(want_timeout, until_deadline)
        latest == BufLatest(q)
    IN IF latest # <<>> /\ latest[1].ts > since
       THEN [kind |-> "fast", val |-> latest, wait |-> wait]
       ELSE IF until_deadline = 0 THEN [kind |-> "none", val |-> <<>>, wait |-> 0]
       ELSE [kind |-> "wait", val |-> <<>>, wait |-> wait]

\* next_after up to its first await: the deadline check, the wait budget and the fast path
NextAfterEntry(q, tnow, since, timeout, deadline) ==
    LET until_deadline == IF deadline >= tnow THEN deadline - tnow ELSE 0
        want_timeout == Max(timeout, 1)
        wait == Min(want_timeout, until_deadline)
        latest == BufLatest(q)
    IN IF until_deadline = 0 THEN [kind |-> "none", val |-> <<>>, wait |-> 0]
       ELSE IF wait = 0 THEN [kind |-> "none", val |-> <<>>, wait |-> 0]
       ELSE IF latest # <<>> /\ latest[1].ts > since
            THEN [kind |-> "fast", val |-> latest, wait |-> wait]
       ELSE [kind |-> "wait", val |-> <<>>, wait |-> wait]

NaAcceptsNotOlder(snap, since) == snap.ts >= since

\* the test of the wait loop: snap.timestamp_ms > since_ms as u128
NaAccepts(snap, since) == snap.ts > since

RxRecvSilentSkip(log, rx) ==
    IF rx >= Len(log) THEN [kind |-> "pending", rx |-> rx, msg |-> <<>>]
    ELSE IF rx < Len(log) - RelayCap
         THEN [kind |-> "ok", rx |-> Len(log) - RelayCap + 1,
               msg |-> <<log[Len(log) - RelayCap + 1]>>]
    ELSE [kind |-> "ok", rx |-> rx + 1, msg |-> <<log[rx + 1]>>]

\* rx.recv() of a receiver that has consumed the first rx messages of the log:
\* the channel retains the last RelayCap messages; a receiver whose next
\* message was overwritten gets Lagged and is moved to the oldest retained one
RxRecv(log, rx) ==
    IF rx >= Len(log) THEN [kind |-> "pending", rx |-> rx, msg |-> <<>>]
    ELSE IF rx < Len(log) - RelayCap
         THEN [kind |-> "lagged", rx |-> Len(log) - RelayCap, msg |-> <<>>]
    ELSE [kind |-> "ok", rx |-> rx + 1, msg |-> <<log[rx + 1]>>]

InitRpc ==
    /\ capacity \in {1, MaxCap}
    /\ inner = <<>>
    /\ pushed = <<>>
    /\ ret = Call("new", <<capacity>>, <<>>, 0, "")
    /\ now = 0
    /\ relay = <<>>
    /\ pub = PubIdle
    /\ na = [c \in Callers |-> NaIdle]
    /\ lock = LockIdle
    /\ committed = <<>>
    /\ wr = WriterIdle
    /\ rd = <<>>
    /\ sam = SamIdle
    /\ published = <<>>
    /\ cancelled = FALSE
    /\ receivers = 1
    /\ sse = <<>>
    /\ str = StrIdle
    /\ pol = PolIdle
    /\ rpcsrv = "idle"
    /\ web = "idle"
    /\ conn = <<>>

PubPushDeferred(t) ==
    /\ pub.pc = "idle"
    /\ Len(pushed) < MaxPublish
    /\ LET s == Snapshot(Len(pushed) + 1, t)
       IN /\ inner' = inner
          /\ pushed' = Append(pushed, s)
          /\ pub' = [pc |-> "send", snap |-> <<s>>]
    /\ UNCHANGED <<capacity, ret, now, relay, na>>
    /\ UNCHANGED lockVars
    /\ UNCHANGED <<samVars, sseVars>>
    /\ UNCHANGED cliVars

\* the subscriber closure, first half: buf.push(snapshot.clone())
PubPush(t) ==
    /\ pub.pc = "idle"
    /\ Len(pushed) < MaxPublish
    /\ LET s == Snapshot(Len(pushed) + 1, t)
       IN /\ inner' = BufPush(inner, capacity, s)
          /\ pushed' = Append(pushed, s)
          /\ pub' = [pc |-> "send", snap |-> <<s>>]
    /\ UNCHANGED <<capacity, ret, now, relay, na>>
    /\ UNCHANGED lockVars
    /\ UNCHANGED <<samVars, sseVars>>
    /\ UNCHANGED cliVars

\* the subscriber closure, second half: stream_tx.send(snapshot)
PubSend ==
    /\ pub.pc = "send"
    /\ relay' = Append(relay, pub.snap[1])
    /\ pub' = PubIdle
    /\ UNCHANGED <<capacity, inner, pushed, ret, now, na>>
    /\ UNCHANGED lockVars
    /\ UNCHANGED <<samVars, sseVars>>
    /\ UNCHANGED cliVars

\* time passes
Tick ==
    /\ now < MaxTime
    /\ now' = now + 1
    /\ UNCHANGED <<capacity, inner, pushed, ret, relay, pub, na>>
    /\ UNCHANGED lockVars
    /\ UNCHANGED <<samVars, sseVars>>
    /\ UNCHANGED cliVars

\* next_after(since_ms, timeout_ms) with ctx.deadline, up to the fast path
NaCall(c, since, timeout, deadline) ==
    /\ na[c].pc = "idle"
    /\ LET e == NextAfterEntry(inner, now, since, timeout, deadline)
       IN na' = [na EXCEPT ![c] =
                    [NaIdle EXCEPT !.pc = IF e.kind = "wait" THEN "subscribe" ELSE "done",
                                   !.since = since, !.timeout = timeout, !.deadline = deadline,
                                   !.called = now,
                                   !.latest0 = IF inner = <<>> THEN <<>> ELSE <<inner[Len(inner)]>>,
                                   !.wait = e.wait, !.ret = e.val, !.path = e.kind,
                                   !.doneAt = now, !.tail = Len(relay)]]
    /\ UNCHANGED <<capacity, inner, pushed, ret, now, relay, pub>>
    /\ UNCHANGED lockVars
    /\ UNCHANGED <<samVars, sseVars>>
    /\ UNCHANGED cliVars

\* let mut rx = self.stream_tx.subscribe(); the timeout starts with the wait
NaSubscribe(c) ==
    /\ na[c].pc = "subscribe"
    /\ na' = [na EXCEPT ![c].pc = "wait", ![c].sub = Len(relay), ![c].rx = Len(relay),
                        ![c].until = now + na[c].wait]
    /\ UNCHANGED <<capacity, inner, pushed, ret, now, relay, pub>>
    /\ UNCHANGED lockVars
    /\ UNCHANGED <<samVars, sseVars>>
    /\ UNCHANGED cliVars

NaRecvLagEnds(c) ==
    /\ na[c].pc = "wait"
    /\ LET r == RxRecv(relay, na[c].rx)
       IN /\ r.kind # "pending"
          /\ IF r.kind = "lagged"
             THEN na' = [na EXCEPT ![c].rx = r.rx, ![c].lagged = TRUE,
                                   ![c].ret = <<>>, ![c].pc = "done",
                                   ![c].doneAt = now, ![c].tail = Len(relay)]
             ELSE IF NaAccepts(r.msg[1], na[c].since)
                  THEN na' = [na EXCEPT ![c].rx = r.rx, ![c].got = Append(@, r.msg[1]),
                                        ![c].ret = r.msg, ![c].pc = "done",
                                        ![c].doneAt = now, ![c].tail = Len(relay)]
                  ELSE na' = [na EXCEPT ![c].rx = r.rx, ![c].got = Append(@, r.msg[1])]
    /\ UNCHANGED <<capacity, inner, pushed, ret, now, relay, pub>>
    /\ UNCHANGED lockVars
    /\ UNCHANGED <<samVars, sseVars>>
    /\ UNCHANGED cliVars

\* one turn of the wait loop on a ready rx.recv()
NaRecv(c) ==
    /\ na[c].pc = "wait"
    /\ LET r == RxRecv(relay, na[c].rx)
       IN /\ r.kind # "pending"
          /\ IF r.kind = "lagged"
             THEN na' = [na EXCEPT ![c].rx = r.rx, ![c].lagged = TRUE]
             ELSE IF NaAccepts(r.msg[1], na[c].since)
                  THEN na' = [na EXCEPT ![c].rx = r.rx, ![c].got = Append(@, r.msg[1]),
                                        ![c].ret = r.msg, ![c].pc = "done",
                                        ![c].doneAt = now, ![c].tail = Len(relay)]
                  ELSE na' = [na EXCEPT ![c].rx = r.rx, ![c].got = Append(@, r.msg[1])]
    /\ UNCHANGED <<capacity, inner, pushed, ret, now, relay, pub>>
    /\ UNCHANGED lockVars
    /\ UNCHANGED <<samVars, sseVars>>
    /\ UNCHANGED cliVars

\* tokio::time::timeout elapses with rx.recv() pending: unwrap_or_default gives None
NaTimeout(c) ==
    /\ na[c].pc = "wait"
    /\ RxRecv(relay, na[c].rx).kind = "pending"
    /\ now >= na[c].until
    /\ na' = [na EXCEPT ![c].ret = <<>>, ![c].path = "timeout", ![c].pc = "done",
                        ![c].doneAt = now, ![c].tail = Len(relay)]
    /\ UNCHANGED <<capacity, inner, pushed, ret, now, relay, pub>>
    /\ UNCHANGED lockVars
    /\ UNCHANGED <<samVars, sseVars>>
    /\ UNCHANGED cliVars

\* the caller takes the reply and may call again
NaReturn(c) ==
    /\ na[c].pc = "done"
    /\ na' = [na EXCEPT ![c] = NaIdle]
    /\ UNCHANGED <<capacity, inner, pushed, ret, now, relay, pub>>
    /\ UNCHANGED lockVars
    /\ UNCHANGED <<samVars, sseVars>>
    /\ UNCHANGED cliVars

NextRpc ==
    \/ \E t \in TsSet : PubPush(t)
    \/ PubSend
    \/ Tick
    \/ \E c \in Callers, since \in TsSet, timeout \in 0..MaxTimeout,
          deadline \in 0..(MaxTime + 1) : NaCall(c, since, timeout, deadline)
    \/ \E c \in Callers : NaSubscribe(c)
    \/ \E c \in Callers : NaRecv(c)
    \/ \E c \in Callers : NaTimeout(c)
    \/ \E c \in Callers : NaReturn(c)

SpecRpc == InitRpc /\ [][NextRpc]_vars

\* a step next_after can take now without time passing: the code up to
\* subscribe has no await, a ready rx.recv() is polled first, a due timer fires
NaDue(c) ==
    \/ na[c].pc = "subscribe"
    \/ /\ na[c].pc = "wait"
       /\ \/ RxRecv(relay, na[c].rx).kind # "pending"
          \/ now >= na[c].until

\* time passes, with the runtime never late: no call is left with a due step
TickPrompt ==
    /\ now < MaxTime
    /\ \A c \in Callers : ~NaDue(c)
    /\ now' = now + 1
    /\ UNCHANGED <<capacity, inner, pushed, ret, relay, pub, na>>
    /\ UNCHANGED lockVars
    /\ UNCHANGED <<samVars, sseVars>>
    /\ UNCHANGED cliVars

NextRpcPrompt ==
    \/ \E t \in TsSet : PubPush(t)
    \/ PubSend
    \/ TickPrompt
    \/ \E c \in Callers, since \in TsSet, timeout \in 0..MaxTimeout,
          deadline \in 0..(MaxTime + 1) : NaCall(c, since, timeout, deadline)
    \/ \E c \in Callers : NaSubscribe(c)
    \/ \E c \in Callers : NaRecv(c)
    \/ \E c \in Callers : NaTimeout(c)
    \/ \E c \in Callers : NaReturn(c)

\* the long-poll on a runtime whose timers and wake-ups are never late
SpecRpcPrompt == InitRpc /\ [][NextRpcPrompt]_vars

----------------------------------------------------------------------------
(* The Sampler (aggregator.rs) publishing through the bus (bus.rs) into the *)
(* buffer and the relay. One loop iteration has no await after the select,  *)
(* so it is one step. Instants (now) and the wall clock (timestamp_ms) are  *)
(* separate clocks, both in ms; dt is kept in microseconds, so that two     *)
(* Instant readings within one ms can still be a positive time apart.       *)

MaxSample == 2      \* loop iterations that publish, per behaviour
TickSlack == 2      \* lateness up to which tokio's interval keeps its schedule, scaled down

Intervals == {1, 2}

\* what Instant::now() can have advanced by, in microseconds, between two
\* readings that fall in the same ms: nothing, or part of a ms
SubMs == {0, 500}

\* cumulative RX/TX totals a refresh of the metrics source can report
Readings == {[rx |-> 0, tx |-> 0], [rx |-> 1, tx |-> 2], [rx |-> 2, tx |-> 1]}

\* what the wall clock (timestamp_ms) can read at a sample: an earlier and a
\* later ms, in either order
WallReadings == {0, 1}

\* a rate in bytes per second, as a fraction
ZeroRate == [num |-> 0, den |-> 1]

NetRateNoWarmup(is_first, total, last_total, dt) ==
    IF total >= last_total THEN [num |-> (total - last_total) * 1000000, den |-> dt]
    ELSE ZeroRate

NetRateSigned(is_first, total, last_total, dt) ==
    IF is_first THEN ZeroRate
    ELSE [num |-> (total - last_total) * 1000000, den |-> dt]

\* rx_rate / tx_rate of one sample; dt is in microseconds, the rate per second
NetRate(is_first, total, last_total, dt) ==
    IF is_first THEN ZeroRate
    ELSE IF total >= last_total THEN [num |-> (total - last_total) * 1000000, den |-> dt]
    ELSE ZeroRate

\* dt of one iteration, in microseconds (sub: the part of a ms elapsed when
\* both Instants fall in the same ms)
SampleDt(is_first, interval, tnow, last_time, sub) ==
    IF is_first THEN Max(interval, 1) * 1000
    ELSE IF tnow > last_time THEN (tnow - last_time) * 1000
    ELSE sub

SkipTickRebased(sm, next, tnow, r, dt) ==
    [sm EXCEPT !.next_tick = next, !.skipped = Min(@ + 1, MaxSample), !.dt = dt,
               !.late = tnow - sm.next_tick, !.ticked_at = tnow,
               !.last_time = tnow, !.last_rx_total = r.rx, !.last_tx_total = r.tx]

\* the locals after an iteration that ends at the continue of the dt <= 0 check
SkipTick(sm, next, tnow, r, dt) ==
    [sm EXCEPT !.next_tick = next, !.skipped = Min(@ + 1, MaxSample), !.dt = dt,
               !.late = tnow - sm.next_tick, !.ticked_at = tnow]

SamAfterPublishKeepsPeak(sm, next, tnow, r, dt, d) ==
    [sm EXCEPT !.next_tick = next, !.is_first = FALSE,
               !.last_time = tnow, !.last_rx_total = Max(@, r.rx),
               !.last_tx_total = Max(@, r.tx), !.send = d.send,
               !.failed = d.failed, !.dt = dt,
               !.late = tnow - sm.next_tick, !.ticked_at = tnow]

\* the locals after an iteration that published: the new baseline
SamAfterPublish(sm, next, tnow, r, dt, d) ==
    [sm EXCEPT !.next_tick = next, !.is_first = FALSE,
               !.last_time = tnow, !.last_rx_total = r.rx,
               !.last_tx_total = r.tx, !.send = d.send,
               !.failed = d.failed, !.dt = dt,
               !.late = tnow - sm.next_tick, !.ticked_at = tnow]

BusPublishTwice(log, e) == Append(Append(log, e), e)

\* publish_snapshot(snapshot), as seen by the record of publishes
BusPublish(log, e) == Append(log, e)

\* the deadline of the next tick once a tick due at d completes at tnow,
\* with MissedTickBehavior::Skip
IntervalNext(d, tnow, period) ==
    IF tnow > d + TickSlack THEN tnow + period - ((tnow - d) % period)
    ELSE d + period

SampleSnapshot(i, t, r, rx_rate, tx_rate) ==
    [id |-> i, ts |-> t, rx_bytes_total |-> r.rx, tx_bytes_total |-> r.tx,
     rx_bytes_per_sec |-> rx_rate, tx_bytes_per_sec |-> tx_rate]

SubscriberPushTwice(q, cap, log, nrx, s) ==
    [inner |-> BufPush(BufPush(q, cap, s), cap, s), pushes |-> <<s, s>>,
     relay |-> IF nrx > 0 THEN Append(log, s) ELSE log,
     send |-> IF nrx > 0 THEN "ok" ELSE "err",
     failed |-> FALSE]

SubscriberSendFirst(q, cap, log, nrx, s) ==
    IF nrx > 0
    THEN [inner |-> BufPush(q, cap, s), pushes |-> <<s>>, relay |-> Append(log, s),
          send |-> "ok", failed |-> FALSE]
    ELSE [inner |-> q, pushes |-> <<>>, relay |-> log, send |-> "err", failed |-> TRUE]

\* the closure of register_storage_and_stream_subscriber on one event: push,
\* then send; a send with no receiver fails, is logged, and nothing is raised
\* (pushes: the snapshots handed to MetricsBuffer::push, in order)
SubscriberDeliver(q, cap, log, nrx, s) ==
    [inner |-> BufPush(q, cap, s), pushes |-> <<s>>,
     relay |-> IF nrx > 0 THEN Append(log, s) ELSE log,
     send |-> IF nrx > 0 THEN "ok" ELSE "err",
     failed |-> FALSE]

\* the locals of Aggregator::run when it enters the loop; the first tick is due at once
SamRunning(iv, tnow, r0) ==
    [SamIdle EXCEPT !.pc = "select", !.interval = iv, !.next_tick = tnow,
                    !.is_first = TRUE, !.last_time = tnow,
                    !.last_rx_total = r0.rx, !.last_tx_total = r0.tx]

InitSampler ==
    /\ capacity \in {1, MaxCap}
    /\ inner = <<>>
    /\ pushed = <<>>
    /\ ret = Call("new", <<capacity>>, <<>>, 0, "")
    /\ lock = LockIdle
    /\ committed = <<>>
    /\ wr = WriterIdle
    /\ rd = <<>>
    /\ now = 0
    /\ relay = <<>>
    /\ pub = PubIdle
    /\ na = <<>>
    /\ sam = SamIdle
    /\ published = <<>>
    /\ cancelled = FALSE
    /\ receivers \in {0, 1}
    /\ sse = <<>>
    /\ str = StrIdle
    /\ pol = PolIdle
    /\ rpcsrv = "idle"
    /\ web = "idle"
    /\ conn = <<>>

\* Aggregator::run up to the loop: the baseline readings and the ticker
SamStart(iv, r0) ==
    /\ sam.pc = "idle"
    /\ sam' = SamRunning(iv, now, r0)
    /\ UNCHANGED <<published, cancelled, receivers>>
    /\ UNCHANGED <<bufVars, lockVars, rpcVars, sseVars>>
    /\ UNCHANGED cliVars

\* one loop iteration taken on the tick branch of the select
SamTick(r, t, sub) ==
    /\ sam.pc = "select"
    /\ now >= sam.next_tick
    /\ Len(published) < MaxSample
    /\ LET dt == SampleDt(sam.is_first, sam.interval, now, sam.last_time, sub)
           next == IntervalNext(sam.next_tick, now, sam.interval)
           s == SampleSnapshot(Len(published) + 1, t, r,
                               NetRate(sam.is_first, r.rx, sam.last_rx_total, dt),
                               NetRate(sam.is_first, r.tx, sam.last_tx_total, dt))
           d == SubscriberDeliver(inner, capacity, relay, receivers, s)
       IN IF dt <= 0
          THEN /\ sam' = SkipTick(sam, next, now, r, dt)
               /\ UNCHANGED <<inner, pushed, relay, published>>
          ELSE /\ inner' = d.inner
               /\ pushed' = pushed \o d.pushes
               /\ relay' = d.relay
               /\ published' = BusPublish(published,
                                          [snap |-> s, is_first |-> sam.is_first, dt |-> dt,
                                           last_rx_total |-> sam.last_rx_total,
                                           last_tx_total |-> sam.last_tx_total,
                                           at |-> now, late |-> now - sam.next_tick,
                                           cancelled |-> cancelled])
               /\ sam' = SamAfterPublish(sam, next, now, r, dt, d)
    /\ UNCHANGED <<capacity, ret, now, pub, na, cancelled, receivers>>
    /\ UNCHANGED <<lockVars, sseVars>>
    /\ UNCHANGED cliVars

\* the loop taken on the cancellation branch of the select: break
SamBreak ==
    /\ sam.pc = "select"
    /\ cancelled
    /\ sam' = [sam EXCEPT !.pc = "stopped"]
    /\ UNCHANGED <<published, cancelled, receivers>>
    /\ UNCHANGED <<bufVars, lockVars, rpcVars, sseVars>>
    /\ UNCHANGED cliVars

\* main signals shutdown: cancel.cancel()
Cancel ==
    /\ ~cancelled
    /\ cancelled' = TRUE
    /\ UNCHANGED <<sam, published, receivers>>
    /\ UNCHANGED <<bufVars, lockVars, rpcVars, sseVars>>
    /\ UNCHANGED cliVars

NextSampler ==
    \/ \E iv \in Intervals, r0 \in Readings : SamStart(iv, r0)
    \/ \E r \in Readings, t \in WallReadings, sub \in SubMs : SamTick(r, t, sub)
    \/ SamBreak
    \/ Cancel
    \/ Tick

SpecSampler == InitSampler /\ [][NextSampler]_vars

----------------------------------------------------------------------------
(* GET /api/stream (api.rs): each stream owns a relay receiver and turns    *)
(* what it receives into server-sent events until shutdown.                 *)

Clients == {"s1", "s2"}

SseIdle == [pc |-> "idle", sub |-> 0, rx |-> 0, events |-> <<>>]

\* serde_json::to_string(&snapshot): MetricsSnapshot is a struct of numbers
\* and vectors of numbers, which serde_json always encodes
ToJson(snap) == [ok |-> TRUE, json |-> snap]

\* the map closure of stream: Ok(snapshot) is a data event, a failed
\* encoding or Err(Lagged) an "error" event (idx: position of the snapshot
\* in the relay's send order)
SseEvent(r) ==
    IF r.kind = "ok"
    THEN IF ToJson(r.msg[1]).ok
         THEN [event |-> "message", data |-> <<ToJson(r.msg[1]).json>>, idx |-> r.rx]
         ELSE [event |-> "error", data |-> <<>>, idx |-> r.rx]
    ELSE [event |-> "error", data |-> <<>>, idx |-> r.rx]

SseAfterItemLagCloses(s, r) ==
    [s EXCEPT !.rx = r.rx, !.events = Append(@, SseEvent(r)),
              !.pc = IF r.kind = "lagged" THEN "ended" ELSE @]

\* one stream after an item of its receiver went through the map closure
SseAfterItem(s, r) == [s EXCEPT !.rx = r.rx, !.events = Append(@, SseEvent(r))]

InitStream ==
    /\ capacity \in {1, MaxCap}
    /\ inner = <<>>
    /\ pushed = <<>>
    /\ ret = Call("new", <<capacity>>, <<>>, 0, "")
    /\ lock = LockIdle
    /\ committed = <<>>
    /\ wr = WriterIdle
    /\ rd = <<>>
    /\ now = 0
    /\ relay = <<>>
    /\ pub = PubIdle
    /\ na = <<>>
    /\ sam = SamIdle
    /\ published = <<>>
    /\ cancelled = FALSE
    /\ receivers = 1
    /\ sse = [k \in Clients |-> SseIdle]
    /\ str = StrIdle
    /\ pol = PolIdle
    /\ rpcsrv = "idle"
    /\ web = "idle"
    /\ conn = <<>>

\* GET /api/stream arrives: state.stream_tx.subscribe()
SseOpen(k) ==
    /\ sse[k].pc = "idle"
    /\ sse' = [sse EXCEPT ![k] = [SseIdle EXCEPT !.pc = "open", !.sub = Len(relay),
                                                  !.rx = Len(relay)]]
    /\ receivers' = receivers + 1
    /\ UNCHANGED <<sam, published, cancelled>>
    /\ UNCHANGED <<bufVars, lockVars, rpcVars>>
    /\ UNCHANGED cliVars

SsePollIgnoresShutdown(k) ==
    /\ sse[k].pc = "open"
    /\ LET r == RxRecv(relay, sse[k].rx)
       IN /\ r.kind # "pending"
          /\ sse' = [sse EXCEPT ![k] = SseAfterItem(@, r)]
    /\ UNCHANGED samVars
    /\ UNCHANGED <<bufVars, lockVars, rpcVars>>
    /\ UNCHANGED cliVars

\* the stream is polled with shutdown not signalled and the receiver ready
SsePoll(k) ==
    /\ sse[k].pc = "open"
    /\ ~cancelled
    /\ LET r == RxRecv(relay, sse[k].rx)
       IN /\ r.kind # "pending"
          /\ sse' = [sse EXCEPT ![k] = SseAfterItem(@, r)]
    /\ UNCHANGED samVars
    /\ UNCHANGED <<bufVars, lockVars, rpcVars>>
    /\ UNCHANGED cliVars

\* the stream is polled after shutdown: take_until ends it and drops the receiver
SseEnd(k) ==
    /\ sse[k].pc = "open"
    /\ cancelled
    /\ sse' = [sse EXCEPT ![k].pc = "ended"]
    /\ receivers' = receivers - 1
    /\ UNCHANGED <<sam, published, cancelled>>
    /\ UNCHANGED <<bufVars, lockVars, rpcVars>>
    /\ UNCHANGED cliVars

NextStream ==
    \/ \E t \in TsSet : PubPush(t)
    \/ PubSend
    \/ Cancel
    \/ \E k \in Clients : SseOpen(k)
    \/ \E k \in Clients : SsePoll(k)
    \/ \E k \in Clients : SseEnd(k)

SpecStream == InitStream /\ [][NextStream]_vars

\* GET /api/health
ServeHealth ==
    /\ ret' = Call("health", <<>>, Health.body, Health.status, Health.error)
    /\ UNCHANGED <<capacity, inner, pushed>>
    /\ UNCHANGED <<lockVars, rpcVars>>
    /\ UNCHANGED <<samVars, sseVars>>
    /\ UNCHANGED cliVars

\* the gateway's router: streams and REST reads next to the publishing bus
NextGateway ==
    \/ \E t \in TsSet : PubPush(t)
    \/ PubSend
    \/ Cancel
    \/ \E k \in Clients : SseOpen(k)
    \/ \E k \in Clients : SsePoll(k)
    \/ \E k \in Clients : SseEnd(k)
    \/ ServeHealth
    \/ ServeGetLatest

SpecGateway == InitStream /\ [][NextGateway]_vars

\* a stream whose shutdown future is ready is woken and polled
SpecStreamLive == SpecStream /\ \A k \in Clients : WF_vars(SseEnd(k))

----------------------------------------------------------------------------
(* The Streamer (rpc.rs, run_rpc_client_streamer) in the client process     *)
(* (client.rs): connect, long-poll next_after, hand each snapshot to        *)
(* on_snapshot, back off after a failed connect. The server is the          *)
(* environment: a connect succeeds or fails, a call is answered with a      *)
(* snapshot newer than the cursor, with "no data", or with an error.        *)

Backoff == 1        \* the sleep after a failed connect (500 ms), scaled down
U64Max == 2         \* the largest u64, scaled down; timestamp_ms is wider (u128)
MaxCalls == 3       \* next_after calls per behaviour
MaxConns == 2       \* connect attempts per behaviour
LongPoll == 1       \* long_poll_ms (30 s), scaled down

\* ts.try_into().unwrap_or(u64::MAX), from u128
ToU64Saturating(ts) == IF ts <= U64Max THEN ts ELSE U64Max

\* the locals after a reply Ok(None), taken as a transport error
StrAfterNoneDropsClient(st) ==
    [st EXCEPT !.client = <<>>, !.resp = [kind |-> "none", snap |-> <<>>], !.pc = "top"]

\* the locals after a reply Ok(None): continue
StrAfterNone(st) ==
    [st EXCEPT !.resp = [kind |-> "none", snap |-> <<>>], !.pc = "top"]

StrAfterSnapshotKeepsCursor(st, snap, canc) ==
    [st EXCEPT !.handed = Append(@, [snap |-> snap, cancelled |-> canc,
                                     client |-> st.client]),
               !.resp = [kind |-> "some", snap |-> <<snap>>],
               !.pc = "top"]

\* the locals after a reply Ok(Some(snap)): the cursor moves to the
\* snapshot's timestamp and the snapshot is handed to on_snapshot
StrAfterSnapshot(st, snap, canc) ==
    [st EXCEPT !.since_ms = ToU64Saturating(snap.ts),
               !.handed = Append(@, [snap |-> snap, cancelled |-> canc,
                                     client |-> st.client]),
               !.resp = [kind |-> "some", snap |-> <<snap>>],
               !.pc = "top"]

InitStreamer ==
    /\ capacity \in {1, MaxCap}
    /\ inner = <<>>
    /\ pushed = <<>>
    /\ ret = Call("new", <<capacity>>, <<>>, 0, "")
    /\ lock = LockIdle
    /\ committed = <<>>
    /\ wr = WriterIdle
    /\ rd = <<>>
    /\ now = 0
    /\ relay = <<>>
    /\ pub = PubIdle
    /\ na = <<>>
    /\ sam = SamIdle
    /\ published = <<>>
    /\ cancelled = FALSE
    /\ receivers = 1
    /\ sse = <<>>
    /\ str = [StrIdle EXCEPT !.pc = "top"]
    /\ pol = PolIdle
    /\ rpcsrv = "idle"
    /\ web = "idle"
    /\ conn = <<>>

\* the head of the loop: the cancel check, then connect if there is no
\* client, else the next_after call with the cursor
StrTop ==
    /\ str.pc = "top"
    /\ IF cancelled
       THEN str' = [str EXCEPT !.pc = "stopped", !.stopped_at = now]
       ELSE IF str.client = <<>>
            THEN /\ str.conns < MaxConns
                 /\ str' = [str EXCEPT !.pc = "connect", !.conns = @ + 1]
            ELSE /\ str.calls < MaxCalls
                 /\ str' = [str EXCEPT !.pc = "call", !.calls = @ + 1]
    /\ UNCHANGED <<pol, rpcsrv, web, conn>>
    /\ UNCHANGED <<bufVars, lockVars, rpcVars, samVars, sseVars>>

\* connect succeeded: the client is kept and next_after is called at once
StrConnected ==
    /\ str.pc = "connect"
    /\ str.calls < MaxCalls
    /\ str' = [str EXCEPT !.pc = "call", !.client = <<str.conns>>, !.calls = @ + 1,
                          !.err_at = -1]
    /\ UNCHANGED <<pol, rpcsrv, web, conn>>
    /\ UNCHANGED <<bufVars, lockVars, rpcVars, samVars, sseVars>>

\* connect failed: sleep(500 ms), not raced against the token
StrConnectFailed ==
    /\ str.pc = "connect"
    /\ str' = [str EXCEPT !.pc = "sleep", !.sleep_until = now + Backoff]
    /\ UNCHANGED <<pol, rpcsrv, web, conn>>
    /\ UNCHANGED <<bufVars, lockVars, rpcVars, samVars, sseVars>>

\* the sleep is over: continue
StrWake ==
    /\ str.pc = "sleep"
    /\ now >= str.sleep_until
    /\ str' = [str EXCEPT !.pc = "top"]
    /\ UNCHANGED <<pol, rpcsrv, web, conn>>
    /\ UNCHANGED <<bufVars, lockVars, rpcVars, samVars, sseVars>>

\* next_after answered Ok(Some(snap)): move the cursor, call on_snapshot
\* (which publishes into the client's bus: push, then send)
StrGotSnapshot(ts) ==
    /\ str.pc = "call"
    /\ ts > str.since_ms
    /\ LET snap == Snapshot(str.calls, ts)
           d == SubscriberDeliver(inner, capacity, relay, receivers, snap)
       IN /\ str' = StrAfterSnapshot(str, snap, cancelled)
          /\ inner' = d.inner
          /\ pushed' = pushed \o d.pushes
          /\ relay' = d.relay
    /\ UNCHANGED <<capacity, ret, now, pub, na>>
    /\ UNCHANGED <<pol, rpcsrv, web, conn>>
    /\ UNCHANGED <<lockVars, samVars, sseVars>>

\* next_after answered Ok(None)
StrGotNone ==
    /\ str.pc = "call"
    /\ str' = StrAfterNone(str)
    /\ UNCHANGED <<pol, rpcsrv, web, conn>>
    /\ UNCHANGED <<bufVars, lockVars, rpcVars, samVars, sseVars>>

\* next_after answered Err: the client is dropped, and the loop goes on
StrGotError ==
    /\ str.pc = "call"
    /\ str' = [str EXCEPT !.client = <<>>, !.err_at = now,
                          !.resp = [kind |-> "err", snap |-> <<>>], !.pc = "top"]
    /\ UNCHANGED <<pol, rpcsrv, web, conn>>
    /\ UNCHANGED <<bufVars, lockVars, rpcVars, samVars, sseVars>>

\* client main binds the HTTP listener: on failure it cancels the token and
\* returns, which drops the runtime and with it every spawned task
WebBind(ok) ==
    /\ web = "idle"
    /\ ~cancelled
    /\ IF ok
       THEN /\ web' = "listening"
            /\ UNCHANGED <<str, cancelled>>
       ELSE /\ web' = "bind_failed"
            /\ cancelled' = TRUE
            /\ str' = [str EXCEPT !.pc = "stopped", !.stopped_at = now, !.cancel_at = now]
    /\ UNCHANGED <<pol, rpcsrv, conn>>
    /\ UNCHANGED <<sam, published, receivers>>
    /\ UNCHANGED <<bufVars, lockVars, rpcVars, sseVars>>

\* client main after the shutdown signal: cancel.cancel() (with web still
\* "idle" the client runs in console mode and binds no listener)
ClientCancel ==
    /\ ~cancelled
    /\ cancelled' = TRUE
    /\ str' = [str EXCEPT !.cancel_at = now, !.cancel_in = str.pc]
    /\ UNCHANGED <<pol, rpcsrv, web, conn>>
    /\ UNCHANGED <<sam, published, receivers>>
    /\ UNCHANGED <<bufVars, lockVars, rpcVars, sseVars>>

\* a step the Streamer can take now without time passing
StrDue ==
    \/ str.pc = "top"
    \/ str.pc = "sleep" /\ now >= str.sleep_until

\* time passes, with the runtime never late
TickClient ==
    /\ now < MaxTime
    /\ ~StrDue
    /\ now' = now + 1
    /\ UNCHANGED <<capacity, inner, pushed, ret, relay, pub, na>>
    /\ UNCHANGED <<lockVars, samVars, sseVars, cliVars>>

NextStreamer ==
    \/ StrTop
    \/ StrConnected
    \/ StrConnectFailed
    \/ StrWake
    \/ \E ts \in 0..(U64Max + 1) : StrGotSnapshot(ts)
    \/ StrGotNone
    \/ StrGotError
    \/ \E ok \in BOOLEAN : WebBind(ok)
    \/ ClientCancel
    \/ TickClient

SpecStreamer == InitStreamer /\ [][NextStreamer]_vars

----------------------------------------------------------------------------
(* The Poller (rpc.rs, run_rpc_client_poller): on each tick connect if      *)
(* there is no client, then call latest once. The server is the             *)
(* environment, as for the Streamer.                                        *)

MaxPoll == 3        \* ticks of the Poller per behaviour

PolAfterConnectFailedRetries(pl) ==
    [pl EXCEPT !.pc = "connect", !.conns = @ + 1, !.tick_conns = @ + 1]

\* the locals after a failed connect: continue, to the next tick
PolAfterConnectFailed(pl) == [pl EXCEPT !.pc = "select"]

InitPoller ==
    /\ capacity \in {1, MaxCap}
    /\ inner = <<>>
    /\ pushed = <<>>
    /\ ret = Call("new", <<capacity>>, <<>>, 0, "")
    /\ lock = LockIdle
    /\ committed = <<>>
    /\ wr = WriterIdle
    /\ rd = <<>>
    /\ now = 0
    /\ relay = <<>>
    /\ pub = PubIdle
    /\ na = <<>>
    /\ sam = SamIdle
    /\ published = <<>>
    /\ cancelled = FALSE
    /\ receivers = 1
    /\ sse = <<>>
    /\ str = StrIdle
    /\ pol = [PolIdle EXCEPT !.pc = "select"]
    /\ rpcsrv = "idle"
    /\ web = "idle"
    /\ conn = <<>>

\* the select taken on the tick branch: connect if there is no client, else
\* call latest
PolTick ==
    /\ pol.pc = "select"
    /\ pol.ticks < MaxPoll
    /\ IF pol.client = <<>>
       THEN pol' = [pol EXCEPT !.pc = "connect", !.ticks = @ + 1, !.conns = @ + 1,
                              !.tick_conns = 1, !.tick_calls = 0]
       ELSE pol' = [pol EXCEPT !.pc = "call", !.ticks = @ + 1,
                              !.tick_conns = 0, !.tick_calls = 1]
    /\ UNCHANGED <<str, rpcsrv, web, conn>>
    /\ UNCHANGED <<bufVars, lockVars, rpcVars, samVars, sseVars>>

\* the select taken on the cancellation branch: break
PolBreak ==
    /\ pol.pc = "select"
    /\ cancelled
    /\ pol' = [pol EXCEPT !.pc = "stopped"]
    /\ UNCHANGED <<str, rpcsrv, web, conn>>
    /\ UNCHANGED <<bufVars, lockVars, rpcVars, samVars, sseVars>>

\* connect succeeded: the client is kept and latest is called
PolConnected ==
    /\ pol.pc = "connect"
    /\ pol' = [pol EXCEPT !.pc = "call", !.client = <<pol.conns>>, !.tick_calls = @ + 1]
    /\ UNCHANGED <<str, rpcsrv, web, conn>>
    /\ UNCHANGED <<bufVars, lockVars, rpcVars, samVars, sseVars>>

\* connect failed
PolConnectFailed ==
    /\ pol.pc = "connect"
    /\ pol' = PolAfterConnectFailed(pol)
    /\ UNCHANGED <<str, rpcsrv, web, conn>>
    /\ UNCHANGED <<bufVars, lockVars, rpcVars, samVars, sseVars>>

\* latest answered Ok(Some(snap)): on_snapshot(snap)
PolGotSnapshot(ts) ==
    /\ pol.pc = "call"
    /\ LET snap == Snapshot(pol.ticks, ts)
       IN pol' = [pol EXCEPT !.handed = Append(@, [snap |-> snap, cancelled |-> cancelled,
                                                   client |-> pol.client]),
                             !.resp = [kind |-> "some", snap |-> <<snap>>],
                             !.pc = "select"]
    /\ UNCHANGED <<str, rpcsrv, web, conn>>
    /\ UNCHANGED <<bufVars, lockVars, rpcVars, samVars, sseVars>>

\* latest answered Ok(None)
PolGotNone ==
    /\ pol.pc = "call"
    /\ pol' = [pol EXCEPT !.resp = [kind |-> "none", snap |-> <<>>], !.pc = "select"]
    /\ UNCHANGED <<str, rpcsrv, web, conn>>
    /\ UNCHANGED <<bufVars, lockVars, rpcVars, samVars, sseVars>>

\* latest answered Err: the client is dropped
PolGotError ==
    /\ pol.pc = "call"
    /\ pol' = [pol EXCEPT !.client = <<>>, !.resp = [kind |-> "err", snap |-> <<>>],
                          !.pc = "select"]
    /\ UNCHANGED <<str, rpcsrv, web, conn>>
    /\ UNCHANGED <<bufVars, lockVars, rpcVars, samVars, sseVars>>

NextPoller ==
    \/ PolTick
    \/ PolBreak
    \/ PolConnected
    \/ PolConnectFailed
    \/ \E ts \in TsSet : PolGotSnapshot(ts)
    \/ PolGotNone
    \/ PolGotError
    \/ Cancel

SpecPoller == InitPoller /\ [][NextPoller]_vars

----------------------------------------------------------------------------
(* The server process (server.rs): the Sampler and the RPC server task,     *)
(* which binds its listener and runs the accept loop until cancellation.    *)

InitServer ==
    /\ capacity \in {1, MaxCap}
    /\ inner = <<>>
    /\ pushed = <<>>
    /\ ret = Call("new", <<capacity>>, <<>>, 0, "")
    /\ lock = LockIdle
    /\ committed = <<>>
    /\ wr = WriterIdle
    /\ rd = <<>>
    /\ now = 0
    /\ relay = <<>>
    /\ pub = PubIdle
    /\ na = <<>>
    /\ sam = SamIdle
    /\ published = <<>>
    /\ cancelled = FALSE
    /\ receivers = 1
    /\ sse = <<>>
    /\ str = StrIdle
    /\ pol = PolIdle
    /\ rpcsrv = "idle"
    /\ web = "idle"
    /\ conn = <<>>

\* run_rpc_server binds its listener: on failure it logs and returns
RpcBind(ok) ==
    /\ rpcsrv = "idle"
    /\ rpcsrv' = IF ok THEN "listening" ELSE "bind_failed"
    /\ UNCHANGED <<str, pol, web, conn>>
    /\ UNCHANGED <<bufVars, lockVars, rpcVars, samVars, sseVars>>

\* the accept loop taken on the cancellation branch: break
RpcBreak ==
    /\ rpcsrv = "listening"
    /\ cancelled
    /\ rpcsrv' = "stopped"
    /\ UNCHANGED <<str, pol, web, conn>>
    /\ UNCHANGED <<bufVars, lockVars, rpcVars, samVars, sseVars>>

NextServer ==
    \/ \E ok \in BOOLEAN : RpcBind(ok)
    \/ RpcBreak
    \/ \E iv \in Intervals, r0 \in Readings : SamStart(iv, r0)
    \/ \E r \in Readings, t \in WallReadings, sub \in SubMs : SamTick(r, t, sub)
    \/ SamBreak
    \/ Cancel
    \/ Tick

SpecServer == InitServer /\ [][NextServer]_vars

----------------------------------------------------------------------------
(* The connections of run_rpc_server (rpc.rs): each accepted connection is  *)
(* a task that takes the connection's requests in arrival order and awaits  *)
(* the handler of one before it takes the next. Nothing is published here,  *)
(* so a next_after that waits ends by its timeout.                          *)

MaxReq == 2         \* requests per connection

Conns == {"k1", "k2"}

RpcOps == {"latest", "history", "next_after"}

ConnIdle == [queue |-> <<>>, cur |-> <<>>, until |-> 0, answered |-> <<>>, sent |-> 0]

InitConn ==
    /\ capacity \in {1, MaxCap}
    /\ inner = <<>>
    /\ pushed = <<>>
    /\ ret = Call("new", <<capacity>>, <<>>, 0, "")
    /\ lock = LockIdle
    /\ committed = <<>>
    /\ wr = WriterIdle
    /\ rd = <<>>
    /\ now = 0
    /\ relay = <<>>
    /\ pub = PubIdle
    /\ na = <<>>
    /\ sam = SamIdle
    /\ published = <<>>
    /\ cancelled = FALSE
    /\ receivers = 1
    /\ sse = <<>>
    /\ str = StrIdle
    /\ pol = PolIdle
    /\ rpcsrv = "listening"
    /\ web = "idle"
    /\ conn = [k \in Conns |-> ConnIdle]

\* a request arrives on connection k
ConnRequest(k, op) ==
    /\ conn[k].sent < MaxReq
    /\ conn' = [conn EXCEPT ![k].queue = Append(@, [op |-> op, arrived |-> now,
                                                     id |-> conn[k].sent + 1]),
                            ![k].sent = @ + 1]
    /\ UNCHANGED <<str, pol, rpcsrv, web>>
    /\ UNCHANGED <<bufVars, lockVars, rpcVars, samVars, sseVars>>

\* for_each takes the connection's next request and awaits its handler:
\* latest and history answer at once, next_after answers at once on its
\* fast path or with no budget, and otherwise stays pending
ConnServe(k) ==
    /\ conn[k].cur = <<>>
    /\ conn[k].queue # <<>>
    /\ LET rq == Head(conn[k].queue)
           e == NextAfterEntry(inner, now, 0, LongPoll, now + LongPoll + 1)
       IN IF rq.op = "next_after" /\ e.kind = "wait"
          THEN conn' = [conn EXCEPT ![k].queue = Tail(@), ![k].cur = <<rq>>,
                                    ![k].until = now + e.wait]
          ELSE conn' = [conn EXCEPT ![k].queue = Tail(@),
                                    ![k].answered = Append(@, [req |-> rq, at |-> now])]
    /\ UNCHANGED <<str, pol, rpcsrv, web>>
    /\ UNCHANGED <<bufVars, lockVars, rpcVars, samVars, sseVars>>

\* the pending next_after of connection k times out and is answered
ConnLongPollEnds(k) ==
    /\ conn[k].cur # <<>>
    /\ now >= conn[k].until
    /\ conn' = [conn EXCEPT ![k].cur = <<>>,
                            ![k].answered = Append(@, [req |-> conn[k].cur[1], at |-> now])]
    /\ UNCHANGED <<str, pol, rpcsrv, web>>
    /\ UNCHANGED <<bufVars, lockVars, rpcVars, samVars, sseVars>>

\* a step connection k can take now without time passing
ConnDue(k) ==
    \/ conn[k].cur = <<>> /\ conn[k].queue # <<>>
    \/ conn[k].cur # <<>> /\ now >= conn[k].until

\* time passes, with the runtime never late
TickConn ==
    /\ now < MaxTime
    /\ \A k \in Conns : ~ConnDue(k)
    /\ now' = now + 1
    /\ UNCHANGED <<capacity, inner, pushed, ret, relay, pub, na>>
    /\ UNCHANGED <<lockVars, samVars, sseVars, cliVars>>

NextConn ==
    \/ \E k \in Conns, op \in RpcOps : ConnRequest(k, op)
    \/ \E k \in Conns : ConnServe(k)
    \/ \E k \in Conns : ConnLongPollEnds(k)
    \/ TickConn

SpecConn == InitConn /\ [][NextConn]_vars

----------------------------------------------------------------------------
(* The Streamer against the server's next_after: the server publishes into  *)
(* its buffer and relay (inner, pushed, relay), the Streamer's call is      *)
(* served as caller c1, and what the Streamer hands to on_snapshot is       *)
(* recorded in str.handed.                                                  *)

\* the timestamps the server gives its snapshots here: all fit in u64
ServerTs == 0..U64Max

InitPipeline ==
    /\ capacity \in {1, MaxCap}
    /\ inner = <<>>
    /\ pushed = <<>>
    /\ ret = Call("new", <<capacity>>, <<>>, 0, "")
    /\ now = 0
    /\ relay = <<>>
    /\ pub = PubIdle
    /\ na = [c \in Callers |-> NaIdle]
    /\ lock = LockIdle
    /\ committed = <<>>
    /\ wr = WriterIdle
    /\ rd = <<>>
    /\ sam = SamIdle
    /\ published = <<>>
    /\ cancelled = FALSE
    /\ receivers = 1
    /\ sse = <<>>
    /\ str = [StrIdle EXCEPT !.pc = "top"]
    /\ pol = PolIdle
    /\ rpcsrv = "idle"
    /\ web = "idle"
    /\ conn = <<>>

\* the Streamer's request reaches the server: next_after(since_ms,
\* long_poll_ms) with the deadline the Streamer gave it
PipeServe ==
    /\ str.pc = "call"
    /\ NaCall("c1", str.since_ms, LongPoll, now + LongPoll + 1)

\* the server's answer reaches the Streamer
PipeReply ==
    /\ str.pc = "call"
    /\ na["c1"].pc = "done"
    /\ str' = IF na["c1"].ret = <<>> THEN StrAfterNone(str)
              ELSE StrAfterSnapshot(str, na["c1"].ret[1], cancelled)
    /\ na' = [na EXCEPT !["c1"] = NaIdle]
    /\ UNCHANGED <<capacity, inner, pushed, ret, now, relay, pub>>
    /\ UNCHANGED <<pol, rpcsrv, web, conn>>
    /\ UNCHANGED <<lockVars, samVars, sseVars>>

\* the call fails in transport: the client is dropped, the answer is lost
PipeError ==
    /\ str.pc = "call"
    /\ str' = [str EXCEPT !.client = <<>>, !.err_at = now,
                          !.resp = [kind |-> "err", snap |-> <<>>], !.pc = "top"]
    /\ na' = [na EXCEPT !["c1"] = NaIdle]
    /\ UNCHANGED <<capacity, inner, pushed, ret, now, relay, pub>>
    /\ UNCHANGED <<pol, rpcsrv, web, conn>>
    /\ UNCHANGED <<lockVars, samVars, sseVars>>

NextPipeline ==
    \/ \E t \in ServerTs : PubPush(t)
    \/ PubSend
    \/ Tick
    \/ StrTop
    \/ StrConnected
    \/ StrConnectFailed
    \/ StrWake
    \/ PipeServe
    \/ NaSubscribe("c1")
    \/ NaRecv("c1")
    \/ NaTimeout("c1")
    \/ PipeReply
    \/ PipeError

SpecPipeline == InitPipeline /\ [][NextPipeline]_vars

----------------------------------------------------------------------------
(* Properties of the sequential buffer, checked under Spec *)

ReadOps == {"latest", "history", "rpc_latest", "rpc_history", "get_latest", "get_history"}

\* the last n elements of q, oldest first
LastN(q, n) == SubSeq(q, Len(q) - Min(n, Len(q)) + 1, Len(q))

\* C1: the number of stored snapshots is at most the capacity, for every
\* capacity including 0, after any sequence of push, latest and history.
C1_LengthAtMostCapacity == Len(inner) <= capacity

\* for capacity C >= 1 the buffer is the last min(C, N) of the N pushed snapshots
C2_HoldsMostRecent ==
    capacity >= 1 => inner = LastN(pushed, capacity)

C2_PushStep ==
    (capacity >= 1 /\ pushed' # pushed) =>
        LET s == pushed'[Len(pushed')]
        IN IF Len(inner) = capacity
           THEN inner' = Append(Tail(inner), s)
           ELSE inner' = Append(inner, s)

\* C2: for capacity C >= 1 the buffer holds exactly the min(C, N) most recent
\* of the N pushed snapshots in push order; a push onto a full buffer removes
\* exactly the oldest entry and a push onto a non-full buffer removes nothing.
C2_BoundedFifo == [](C2_HoldsMostRecent) /\ [][C2_PushStep]_vars

C2_Witness ==
    /\ capacity = 2
    /\ Len(pushed) = 3
    /\ ret.op = "push"
    /\ inner = <<pushed[2], pushed[3]>>

\* C3: latest returns nothing iff nothing was ever pushed; otherwise it
\* returns the snapshot passed to the most recent push.
C3_LatestIsLastPushed ==
    ret.op = "latest" =>
        /\ (ret.val = <<>>) <=> (pushed = <<>>)
        /\ pushed # <<>> => ret.val = <<pushed[Len(pushed)]>>

C3_Witness ==
    /\ ret.op = "latest"
    /\ Len(pushed) = 3
    /\ Len(inner) = 2
    /\ ret.val = <<pushed[3]>>

\* C4: history(limit) returns the last min(limit, length) retained snapshots
\* oldest first; with no limit the whole retained sequence; with limit 0 the
\* empty sequence.
C4_HistoryIsSuffix ==
    ret.op = "history" =>
        LET limit == ret.args[1]
        IN /\ limit = <<>> => ret.val = inner
           /\ limit # <<>> =>
                /\ Len(ret.val) = Min(limit[1], Len(inner))
                /\ \E pre \in {SubSeq(inner, 1, k) : k \in 0..Len(inner)} :
                       inner = pre \o ret.val
           /\ limit = <<0>> => ret.val = <<>>

C4_Witness ==
    /\ ret.op = "history"
    /\ ret.args[1] = <<1>>
    /\ Len(inner) = 2
    /\ ret.val = <<inner[2]>>

\* a read step leaves the buffer alone; a read repeated at once replies the same
C5_ReadStep ==
    /\ (ret'.op \in ReadOps /\ ret' # ret) =>
           /\ inner' = inner
           /\ pushed' = pushed
           /\ capacity' = capacity
    /\ (ret.op \in ReadOps /\ ret'.op = ret.op /\ ret'.args = ret.args) =>
           ret' = ret

\* C5: latest and history (buffer, RPC service, HTTP gateway) do not change
\* the buffer, and a call repeated with the same arguments with no push in
\* between returns the identical result.
C5_ReadsLeaveBuffer == [][C5_ReadStep]_vars

C5_Witness ==
    /\ ret.op = "history"
    /\ ret.args[1] = <<>>
    /\ Len(ret.val) = 2
    /\ inner = ret.val

\* C7: RPC history(limit, since_ms) keeps the retained snapshots with
\* timestamp_ms >= since_ms and only then truncates to the newest limit of
\* them, oldest first.
C7_FilterThenTruncate ==
    ret.op = "rpc_history" =>
        LET limit == ret.args[1]
            since == ret.args[2]
            match == IF since = <<>> THEN inner
                     ELSE SelectSeq(inner, LAMBDA s : s.ts >= since[1])
        IN ret.val = IF limit = <<>> THEN match ELSE LastN(match, limit[1])

\* a call where truncating first would have lost the matching entry
C7_Witness ==
    /\ ret.op = "rpc_history"
    /\ ret.args = <<<<1>>, <<1>>>>
    /\ Len(inner) = 2
    /\ inner[1].ts = 1
    /\ inner[2].ts = 0
    /\ ret.val = <<inner[1]>>

\* C8: GET /api/history answers 200 with the retained snapshots with
\* since_ms <= timestamp_ms <= until_ms (each bound only when given), then
\* truncated to the newest limit when given, oldest first; empty when the
\* buffer is empty or nothing matches.
C8_GetHistory ==
    ret.op = "get_history" =>
        LET limit == ret.args[1]
            since == ret.args[2]
            until == ret.args[3]
            InRange(s) == /\ since # <<>> => s.ts >= since[1]
                          /\ until # <<>> => s.ts <= until[1]
            match == SelectSeq(inner, InRange)
        IN /\ ret.status = 200
           /\ ret.val = IF limit = <<>> THEN match ELSE LastN(match, limit[1])
           /\ inner = <<>> => ret.val = <<>>

\* both bounds given, an entry on the upper bound kept, the older match cut by limit
C8_Witness ==
    /\ ret.op = "get_history"
    /\ ret.args = <<<<1>>, <<1>>, <<1>>>>
    /\ Len(inner) = 2
    /\ inner[1].ts = 1
    /\ inner[2].ts = 1
    /\ ret.status = 200
    /\ ret.val = <<inner[2]>>

----------------------------------------------------------------------------
(* Properties of the concurrent buffer, checked under SpecLock *)

\* C6: with one writer in push and any number of readers in latest or
\* history, every read result equals the buffer contents at a single instant
\* between the read's start and its end, never a mix of the states before and
\* after a push.
C6_ReadsAreAtomic ==
    \A r \in Readers : rd[r].pc = "done" => rd[r].acc \in rd[r].win

\* a full-buffer history that overlapped an evicting push and returned the state after it
C6_Witness ==
    \E r \in Readers :
        /\ rd[r].pc = "done"
        /\ rd[r].op = "history"
        /\ rd[r].limit = <<>>
        /\ capacity = 2
        /\ Cardinality(rd[r].win) = 2
        /\ Len(pushed) = 3
        /\ rd[r].acc = <<pushed[2], pushed[3]>>

----------------------------------------------------------------------------
(* Properties of the long-poll, checked under SpecRpc *)

\* the buffer's latest snapshot was newer than since_ms when the call was made
NewerAtCall(c) ==
    /\ na[c].pc # "idle"
    /\ na[c].latest0 # <<>>
    /\ na[c].latest0[1].ts > na[c].since

\* the call returned the latest snapshot at once, without subscribing or waiting
ReturnedFast(c) ==
    /\ na[c].pc = "done"
    /\ na[c].path = "fast"
    /\ na[c].ret = na[c].latest0
    /\ na[c].sub = -1
    /\ na[c].doneAt = na[c].called

\* C9 as stated: whenever the buffer's latest snapshot is newer than since_ms
\* when next_after is called, for any timeout_ms and any caller deadline,
\* next_after returns it immediately without subscribing or waiting.
C9_FastPathAnyDeadline ==
    \A c \in Callers : NewerAtCall(c) => ReturnedFast(c)

\* C9 amended: the same, for any timeout_ms, provided the caller's deadline
\* has not passed when the call is made.
C9_FastPath ==
    \A c \in Callers :
        (NewerAtCall(c) /\ na[c].deadline > na[c].called) => ReturnedFast(c)

\* a fast-path return with timeout_ms = 0 and the deadline one ms away
C9_Witness ==
    \E c \in Callers :
        /\ NewerAtCall(c)
        /\ na[c].timeout = 0
        /\ na[c].deadline = na[c].called + 1
        /\ ReturnedFast(c)

\* every snapshot next_after returns is strictly newer than since_ms
ReturnsNewer(c) ==
    (na[c].pc = "done" /\ na[c].ret # <<>>) => na[c].ret[1].ts > na[c].since

\* the relay messages forwarded after the caller subscribed and before the one it returned
ForwardedBefore(c) == {relay[j] : j \in (na[c].sub + 1)..(na[c].rx - 1)}

WaitReturned(c) == na[c].pc = "done" /\ na[c].path = "wait" /\ na[c].ret # <<>>

TimedOut(c) == na[c].pc = "done" /\ na[c].path = "timeout"

\* the relay messages forwarded after the caller subscribed and before it timed out
ForwardedInBudget(c) == {relay[j] : j \in (na[c].sub + 1)..na[c].tail}

\* C10 as stated: on the wait path next_after returns the first snapshot
\* forwarded on the relay after it subscribed whose timestamp_ms > since_ms,
\* skipping those with timestamp_ms <= since_ms; every snapshot returned has
\* timestamp_ms > since_ms; a snapshot newer than since_ms forwarded within
\* the wait budget is returned, so the call does not time out past one.
C10_FirstForwarded ==
    \A c \in Callers :
        /\ ReturnsNewer(c)
        /\ WaitReturned(c) =>
              /\ na[c].rx > na[c].sub
              /\ na[c].ret = <<relay[na[c].rx]>>
              /\ \A m \in ForwardedBefore(c) : m.ts <= na[c].since
        /\ TimedOut(c) => \A m \in ForwardedInBudget(c) : m.ts <= na[c].since

\* C10 amended: on the wait path next_after returns the first snapshot it
\* receives from the relay whose timestamp_ms > since_ms, one forwarded after
\* it subscribed, skipping received ones with timestamp_ms <= since_ms; unless
\* the relay signalled lag, that is the first such snapshot forwarded after it
\* subscribed, and the call times out only if no such snapshot was forwarded;
\* every snapshot returned has timestamp_ms > since_ms.
C10_FirstReceived ==
    \A c \in Callers :
        /\ ReturnsNewer(c)
        /\ WaitReturned(c) =>
              /\ na[c].rx > na[c].sub
              /\ na[c].ret = <<relay[na[c].rx]>>
              /\ na[c].got # <<>>
              /\ na[c].got[Len(na[c].got)] = na[c].ret[1]
              /\ \A i \in 1..(Len(na[c].got) - 1) : na[c].got[i].ts <= na[c].since
              /\ ~na[c].lagged => \A m \in ForwardedBefore(c) : m.ts <= na[c].since
        /\ TimedOut(c) =>
              /\ na[c].ret = <<>>
              /\ \A i \in 1..Len(na[c].got) : na[c].got[i].ts <= na[c].since
              /\ ~na[c].lagged => \A m \in ForwardedInBudget(c) : m.ts <= na[c].since

\* empty buffer at the call; an older snapshot forwarded and skipped, then the
\* newer one forwarded within the budget and returned
C10_Witness ==
    \E c \in Callers :
        /\ WaitReturned(c)
        /\ na[c].latest0 = <<>>
        /\ Len(na[c].got) = 2
        /\ na[c].got[1].ts <= na[c].since
        /\ na[c].ret = <<pushed[Len(pushed)]>>
        /\ na[c].doneAt < na[c].until

----------------------------------------------------------------------------
(* Timing of the long-poll, checked under SpecRpcPrompt and SpecRpc *)

\* C11 as stated: if no snapshot with timestamp_ms > since_ms arrives,
\* next_after returns "no data" no later than timeout_ms after the call
\* started and strictly before the caller's deadline; in no execution does a
\* call made before its deadline return after the deadline.
C11_TimeoutBounds ==
    \A c \in Callers :
        /\ TimedOut(c) =>
              /\ na[c].doneAt <= na[c].called + na[c].timeout
              /\ na[c].doneAt < na[c].deadline
        /\ (na[c].pc = "done" /\ na[c].deadline > na[c].called) =>
              na[c].doneAt <= na[c].deadline

\* the call returned "no data" at once, without subscribing or waiting
NoDataAtOnce(c) ==
    /\ na[c].pc = "done"
    /\ na[c].path = "none"
    /\ na[c].ret = <<>>
    /\ na[c].sub = -1
    /\ na[c].doneAt = na[c].called

LaggedEnd(c) ==
    (na[c].pc = "done" /\ na[c].lagged) =>
        \/ /\ na[c].path = "wait"
           /\ na[c].ret # <<>>
           /\ na[c].ret[1].ts > na[c].since
           /\ na[c].ret = <<relay[na[c].rx]>>
        \/ /\ na[c].path = "timeout"
           /\ na[c].ret = <<>>
           /\ na[c].doneAt >= na[c].until

\* the step that receives the lag signal leaves the call waiting, with the
\* same budget, positioned at the oldest snapshot the relay retains
LagStep(c) ==
    (/\ na[c].pc = "wait"
     /\ RxRecv(relay, na[c].rx).kind = "lagged"
     /\ na'[c] # na[c]) =>
        /\ na'[c].pc = "wait"
        /\ na'[c].lagged
        /\ na'[c].until = na[c].until
        /\ na'[c].ret = <<>>
        /\ na'[c].rx = Len(relay) - RelayCap
        /\ RxRecv(relay', na'[c].rx).kind = "ok"

\* C13: during the wait of next_after a lag signal from the relay never ends
\* the call and is never returned as an error: the call keeps waiting for the
\* next forwarded snapshot within the same wait budget, and ends only with a
\* snapshot or "no data". (The relay cannot close during a call: the server
\* value that serves the call owns a Sender.)
C13_LagKeepsWaiting ==
    /\ [](\A c \in Callers : LaggedEnd(c))
    /\ [][\A c \in Callers : LagStep(c)]_vars

\* a call that lagged behind two forwarded snapshots and returned the retained one
C13_Witness ==
    \E c \in Callers :
        /\ WaitReturned(c)
        /\ na[c].lagged
        /\ na[c].sub = 0
        /\ Len(relay) = 2
        /\ na[c].ret = <<relay[2]>>

----------------------------------------------------------------------------
(* Properties of the Sampler and the bus, checked under SpecSampler *)

\* the snapshots passed to publish_snapshot, in publish order
PublishedSnaps == [i \in 1..Len(published) |-> published[i].snap]

\* C14: every snapshot passed to publish_snapshot is delivered to the
\* registered subscriber exactly once and in publish order (the pushes into
\* the buffer, and with a receiver alive the sends on the relay, are exactly
\* the published snapshots in order); hence from an empty buffer of capacity
\* >= k, after k publishes history(None) is exactly the k published snapshots
\* in order, and after one sampler tick latest() is the published snapshot
\* and history(None) has length 1.
C14_DeliveredOnceInOrder ==
    /\ pushed = PublishedSnaps
    /\ receivers > 0 => relay = PublishedSnaps
    /\ BufHistory(inner, <<>>) = LastN(PublishedSnaps, capacity)
    /\ capacity >= Len(published) => BufHistory(inner, <<>>) = PublishedSnaps
    /\ Len(published) = 1 =>
          /\ BufLatest(inner) = <<published[1].snap>>
          /\ Len(BufHistory(inner, <<>>)) = 1

\* two ticks into a buffer of capacity 2: history is the two snapshots in order
C14_Witness ==
    /\ capacity = 2
    /\ Len(published) = 2
    /\ published[1].snap # published[2].snap
    /\ BufHistory(inner, <<>>) = <<published[1].snap, published[2].snap>>
    /\ BufLatest(inner) = <<published[2].snap>>

\* C15: publish_snapshot always completes and never returns an error to the
\* Sampler, whatever the state of the consumers: with no receiver on the
\* relay (the send fails and is only logged) or with a receiver that never
\* drains, the snapshot is still appended to the buffer and the Sampler goes
\* on to its next tick.
C15_NeverFailsProducer ==
    /\ sam.pc # "idle" => ~sam.failed
    /\ published # <<>> =>
          /\ sam.pc \in {"select", "stopped"}
          /\ BufLatest(inner) = <<published[Len(published)].snap>>
          /\ Len(pushed) = Len(published)
          /\ sam.send = IF receivers = 0 THEN "err" ELSE "ok"
    /\ receivers = 0 => relay = <<>>

\* two ticks with no receiver on the relay: both sends fail, both snapshots stored
C15_Witness ==
    /\ receivers = 0
    /\ sam.send = "err"
    /\ sam.pc = "select"
    /\ Len(published) = 2
    /\ capacity = 2
    /\ inner = PublishedSnaps

\* C18 as stated: within one Sampler the timestamp_ms values of the published
\* snapshots are strictly increasing in publish order, for every tick
\* interval and every behaviour of the wall clock, and the buffer holds
\* strictly increasing timestamps oldest-first.
C18_StrictlyIncreasing ==
    /\ \A i, j \in 1..Len(published) :
          i < j => published[i].snap.ts < published[j].snap.ts
    /\ \A i, j \in 1..Len(inner) : i < j => inner[i].ts < inner[j].ts

\* C19: the first snapshot a Sampler publishes has rx_bytes_per_sec = 0 and
\* tx_bytes_per_sec = 0, whatever counters the metrics source reports at
\* start-up and on the first tick.
C19_FirstRatesZero ==
    published # <<>> =>
        /\ published[1].is_first
        /\ published[1].snap.rx_bytes_per_sec.num = 0
        /\ published[1].snap.tx_bytes_per_sec.num = 0
        /\ \A i \in 2..Len(published) : ~published[i].is_first

\* the counters moved between the baseline reading and the first tick
C19_Witness ==
    /\ published # <<>>
    /\ published[1].snap.rx_bytes_total > published[1].last_rx_total
    /\ published[1].snap.tx_bytes_total > published[1].last_tx_total
    /\ published[1].snap.rx_bytes_per_sec.num = 0

\* the rate the claim gives for a counter that went from last_total to total in dt microseconds
ClaimedRate(rate, total, last_total, dt) ==
    /\ total < last_total => rate.num = 0
    /\ total >= last_total =>
          /\ dt > 0
          /\ rate.den = dt
          /\ rate.num = (total - last_total) * 1000000

\* C20: for every non-warm-up sample, if the current cumulative RX (resp. TX)
\* counter is smaller than the previous one the published rate is exactly 0,
\* and otherwise the rate is (current - previous) / dt; no published rate is
\* ever negative.
C20_RatesFromCounters ==
    \A i \in 1..Len(published) :
        LET p == published[i]
        IN /\ ~p.is_first =>
                 /\ ClaimedRate(p.snap.rx_bytes_per_sec, p.snap.rx_bytes_total,
                                p.last_rx_total, p.dt)
                 /\ ClaimedRate(p.snap.tx_bytes_per_sec, p.snap.tx_bytes_total,
                                p.last_tx_total, p.dt)
           /\ p.snap.rx_bytes_per_sec.num >= 0 /\ p.snap.rx_bytes_per_sec.den > 0
           /\ p.snap.tx_bytes_per_sec.num >= 0 /\ p.snap.tx_bytes_per_sec.den > 0

\* a second sample two ms after the first whose RX counter grew and whose TX
\* counter fell
C20_Witness ==
    /\ Len(published) = 2
    /\ ~published[2].is_first
    /\ published[2].dt = 2000
    /\ published[2].snap.rx_bytes_total > published[2].last_rx_total
    /\ published[2].snap.tx_bytes_total < published[2].last_tx_total
    /\ published[2].snap.rx_bytes_per_sec = [num |-> 1000000, den |-> 2000]
    /\ published[2].snap.tx_bytes_per_sec = ZeroRate

----------------------------------------------------------------------------
(* Order of buffer and relay, checked under SpecRpc and SpecStream *)

\* C16: for every published snapshot S the append of S to the buffer happens
\* before S is forwarded to the relay: whatever the relay holds and whatever
\* a next_after waiter has received from it has already been pushed, so with
\* capacity >= 1 the buffer is non-empty and its latest snapshot is S or one
\* published after S.
C16_PushBeforeForward ==
    /\ Len(relay) <= Len(pushed)
    /\ \A j \in 1..Len(relay) :
          /\ relay[j] = pushed[j]
          /\ capacity >= 1 => (inner # <<>> /\ inner[Len(inner)].id >= relay[j].id)
    /\ \A c \in Callers : \A i \in 1..Len(na[c].got) :
          /\ \E j \in 1..Len(pushed) : pushed[j] = na[c].got[i]
          /\ capacity >= 1 => (inner # <<>> /\ inner[Len(inner)].id >= na[c].got[i].id)

\* a waiter has received the first snapshot and the buffer, of capacity 1,
\* already holds the one published after it, not yet forwarded
C16_Witness ==
    \E c \in Callers :
        /\ WaitReturned(c)
        /\ capacity = 1
        /\ Len(pushed) = 2
        /\ na[c].ret = <<pushed[1]>>
        /\ inner = <<pushed[2]>>
        /\ Len(relay) = 1

\* positions in events of the data events of stream k
DataAt(k) == {i \in 1..Len(sse[k].events) : sse[k].events[i].event = "message"}

\* the relay position consumed before event i of stream k: that of the last
\* data event before it, or the position at which the stream subscribed
PrevIdx(k, i) ==
    LET before == {j \in DataAt(k) : j < i}
    IN IF before = {} THEN sse[k].sub
       ELSE sse[k].events[CHOOSE j \in before : \A h \in before : h <= j].idx

\* C17: each relay consumer receives, in send order and without duplicates,
\* snapshots sent after it subscribed, all of them unless it has fallen
\* behind the channel's retained window; in that case it observes a lag
\* signal before it receives any later snapshot, so no snapshot is skipped
\* silently.
C17_NoSilentSkip ==
    \A k \in Clients :
        LET ev == sse[k].events
        IN /\ \A i \in DataAt(k) :
                 /\ ev[i].idx > sse[k].sub
                 /\ ev[i].idx <= Len(relay)
                 /\ ev[i].data = <<relay[ev[i].idx]>>
                 /\ ev[i].idx > PrevIdx(k, i)
                 /\ ev[i].idx # PrevIdx(k, i) + 1 =>
                       \E e \in 1..(i - 1) :
                           /\ ev[e].event = "error"
                           /\ \A j \in DataAt(k) : j < i => j < e
           /\ (\A i \in 1..Len(ev) : ev[i].event = "message") =>
                 [i \in 1..Len(ev) |-> ev[i].data[1]]
                     = SubSeq(relay, sse[k].sub + 1, sse[k].rx)

\* a stream that fell behind two sends on a relay retaining one: the lag
\* signal, then the retained snapshot
C17_Witness ==
    \E k \in Clients :
        /\ sse[k].sub = 0
        /\ Len(relay) = 2
        /\ Len(sse[k].events) = 2
        /\ sse[k].events[1].event = "error"
        /\ sse[k].events[2].event = "message"
        /\ sse[k].events[2].data = <<relay[2]>>

----------------------------------------------------------------------------
(* The Sampler's loop: skipped ticks, cancellation, missed ticks            *)
(* (checked under SpecSampler)                                              *)

\* a step that is one loop iteration taken on the tick branch
TickStep ==
    /\ sam.pc = "select"
    /\ sam' # sam
    /\ sam' # [sam EXCEPT !.pc = "stopped"]

\* the delta baseline: previous tick time and previous RX/TX counters
Baseline(sm) == <<sm.last_time, sm.last_rx_total, sm.last_tx_total>>

\* the iteration's dt: measured between the two Instants on a non-warm-up
\* tick, max(tickInterval, 1 ms) on the warm-up tick; not positive means skip
C21_Step ==
    TickStep =>
        /\ sam'.pc = "select"
        /\ IF sam.is_first THEN sam'.dt = Max(sam.interval, 1) * 1000
           ELSE IF now > sam.last_time THEN sam'.dt = (now - sam.last_time) * 1000
           ELSE sam'.dt \in SubMs
        /\ sam.is_first => sam'.dt > 0
        /\ sam'.dt <= 0 =>
              /\ ~sam.is_first
              /\ published' = published
              /\ inner' = inner /\ relay' = relay
              /\ Baseline(sam') = Baseline(sam)
              /\ sam'.is_first = sam.is_first

\* C21: when the elapsed time dt of a non-warm-up tick is not positive, the
\* Sampler skips the tick entirely: it publishes no snapshot, leaves its
\* delta baseline unchanged and continues with the next tick; on the warm-up
\* tick dt is max(tickInterval, 1 ms) and therefore always positive.
C21_SkipsNonPositiveDt ==
    /\ [][C21_Step]_vars
    /\ [](\A i \in 1..Len(published) : published[i].dt > 0)

\* a tick skipped for dt = 0 after the first sample, and a later tick
\* published against the baseline of the first sample
C21_Witness ==
    /\ sam.skipped >= 1
    /\ Len(published) = 2
    /\ published[2].at > published[1].at
    /\ published[2].dt = (published[2].at - published[1].at) * 1000
    /\ published[2].last_rx_total = published[1].snap.rx_bytes_total

\* C22 as stated: in every loop iteration in which the cancellation signal
\* and the tick are both ready the cancellation branch is taken, so no
\* snapshot is published by an iteration that began with cancellation ready.
C22_CancelWinsTies ==
    \A i \in 1..Len(published) : ~published[i].cancelled

C23_Step ==
    /\ Len(published') \in {Len(published), Len(published) + 1}
    /\ SubSeq(published', 1, Len(published)) = published
    /\ (TickStep /\ sam'.dt > 0) => Len(published') = Len(published) + 1
    /\ ~TickStep => published' = published
    /\ (sam.pc = "stopped" \/ sam'.pc = "stopped") =>
          (published' = published /\ sam'.pc = "stopped")

\* C23: each loop iteration calls publish_snapshot at most once, exactly
\* once when the tick is not skipped, with a freshly built snapshot that is
\* never handed to the bus again; once the cancellation branch has been
\* taken no publish happens.
C23_PublishOncePerTick ==
    /\ [][C23_Step]_vars
    /\ [](\A i \in 1..Len(published) : published[i].snap.id = i)

\* the loop has exited after two published snapshots while a tick is due
C23_Witness ==
    /\ sam.pc = "stopped"
    /\ Len(published) = 2
    /\ published[1].snap # published[2].snap
    /\ now >= sam.next_tick

\* C24 as stated: if the Sampler is delayed for k > 1 tick periods, on
\* resuming it publishes a single snapshot and then waits for the next
\* scheduled tick boundary; it never publishes several snapshots
\* back-to-back to make up for the missed ticks.
C24_NoBurst ==
    /\ (sam.pc # "idle" /\ sam.late >= 2 * sam.interval) =>
          sam.next_tick > sam.ticked_at
    /\ \A i \in 1..(Len(published) - 1) :
          published[i].late >= 2 * sam.interval =>
              published[i + 1].at > published[i].at

----------------------------------------------------------------------------
(* Properties of the Streamer, checked under SpecStreamer *)

\* a step in which the Streamer takes the reply to its next_after call
StrReplyStep == str.pc = "call" /\ str'.pc = "top"

\* what a reply does to the cursor, the connection and on_snapshot, and what
\* follows a "no data" reply
C25_Step ==
    /\ (StrReplyStep /\ str'.resp.kind = "some") =>
          LET snap == str'.resp.snap[1]
          IN /\ str'.since_ms = IF snap.ts <= U64Max THEN snap.ts ELSE U64Max
             /\ Len(str'.handed) = Len(str.handed) + 1
             /\ SubSeq(str'.handed, 1, Len(str.handed)) = str.handed
             /\ str'.handed[Len(str'.handed)].snap = snap
             /\ str'.client = str.client
    /\ (StrReplyStep /\ str'.resp.kind = "none") =>
          /\ str'.since_ms = str.since_ms
          /\ str'.client = str.client
          /\ str'.handed = str.handed
    /\ (str.pc = "top" /\ str.resp.kind = "none" /\ ~cancelled' /\ str' # str) =>
          /\ str'.pc = "call"
          /\ str'.calls = str.calls + 1
          /\ str'.client = str.client /\ str.client # <<>>
          /\ str'.conns = str.conns
          /\ str'.since_ms = str.since_ms
    /\ ~StrReplyStep => str'.handed = str.handed

\* C25: after each next_after that returns a snapshot the cursor since_ms is
\* set to that snapshot's timestamp_ms (saturated to u64::MAX) and the
\* snapshot is handed to on_snapshot exactly once; after a next_after that
\* returns "no data" the cursor and the connection are unchanged,
\* on_snapshot is not called, and the next iteration calls next_after again
\* on the same connection.
C25_CursorAndHandOff ==
    /\ [][C25_Step]_vars
    /\ [](\A i, j \in 1..Len(str.handed) :
             i # j => str.handed[i].snap.id # str.handed[j].snap.id)

\* a "no data" reply, then a snapshot whose timestamp does not fit in u64,
\* taken on the same connection with the cursor saturated
C25_Witness ==
    /\ str.calls = 2
    /\ str.conns = 1
    /\ str.resp.kind = "some"
    /\ str.resp.snap[1].ts = U64Max + 1
    /\ str.since_ms = U64Max
    /\ Len(str.handed) = 1
    /\ str.handed[1].client = <<1>>

\* C26 as stated: after a hard RPC error returned by next_after the
\* connection is discarded and the next connect attempt is made only after
\* the fixed backoff delay has elapsed, never immediately.
C26_BackoffAfterRpcError ==
    /\ str.resp.kind = "err" => str.client = <<>>
    /\ (str.pc = "connect" /\ str.err_at >= 0) => now >= str.err_at + Backoff

\* C27 as stated: if cancellation fires while the Streamer is in its
\* reconnect backoff, the Streamer exits promptly, i.e. without waiting for
\* the backoff to elapse.
C27_PromptExitInBackoff ==
    (str.pc = "stopped" /\ str.cancel_in = "sleep") => str.stopped_at = str.cancel_at

\* C28 as stated: every wait is raced against the cancellation signal, so
\* once the signal has fired on_snapshot is never called: no snapshot is
\* handed to the bus after cancellation.
C28_NoPublishAfterCancel ==
    \A i \in 1..Len(str.handed) : ~str.handed[i].cancelled

----------------------------------------------------------------------------
(* Properties of the Poller (SpecPoller) and of start-up failures (SpecServer) *)

\* a step in which the Poller takes the reply to its latest call
PolReplyStep == pol.pc = "call" /\ pol'.pc = "select"

C29_Step ==
    /\ (pol.pc = "connect" /\ pol'.pc = "select") =>
          /\ pol'.client = <<>>
          /\ pol'.tick_calls = 0
          /\ pol'.handed = pol.handed
    /\ (PolReplyStep /\ pol'.resp.kind = "err") =>
          (pol'.client = <<>> /\ pol'.handed = pol.handed)
    /\ (PolReplyStep /\ pol'.resp.kind = "none") =>
          (pol'.client = pol.client /\ pol.client # <<>> /\ pol'.handed = pol.handed)
    /\ (PolReplyStep /\ pol'.resp.kind = "some") =>
          /\ pol'.client = pol.client
          /\ pol'.handed = Append(pol.handed, pol'.handed[Len(pol'.handed)])
          /\ pol'.handed[Len(pol'.handed)].snap = pol'.resp.snap[1]
    /\ ~PolReplyStep => pol'.handed = pol.handed
    /\ (pol.pc = "select" /\ pol' # pol) =>
          (pol'.ticks = pol.ticks + 1 \/ pol'.pc = "stopped")
    /\ pol.pc # "select" => pol'.ticks = pol.ticks

\* C29: in each tick of the Poller there is at most one connect attempt and
\* at most one latest call; a failed connect or an error from latest leaves
\* the Poller disconnected with no further attempt until the next tick; a
\* latest that returns "no data" keeps the connection and calls on_snapshot
\* zero times; a latest that returns a snapshot calls on_snapshot exactly once.
C29_OneAttemptPerTick ==
    /\ [][C29_Step]_vars
    /\ [](pol.tick_conns <= 1 /\ pol.tick_calls <= 1)
    /\ [](Len(pol.handed) <= pol.ticks)

\* three ticks: a failed connect; a connect and a snapshot; then "no data"
\* on the same connection
C29_Witness ==
    /\ pol.ticks = 3
    /\ pol.conns = 2
    /\ pol.client = <<2>>
    /\ pol.resp.kind = "none"
    /\ Len(pol.handed) = 1
    /\ pol.handed[1].snap.id = 2
    /\ pol.pc = "select"

\* C30 as stated: when binding a listener fails (the RPC port in
\* run_rpc_server, the HTTP port in the client), the failing subsystem signals
\* the process-wide cancellation token, so the process does not keep running
\* without it. Here: the RPC port in the server process.
C30_BindFailureCancels ==
    rpcsrv = "bind_failed" => cancelled

----------------------------------------------------------------------------
(* Properties of the HTTP gateway: streams (SpecStream, SpecStreamLive)     *)

\* a step in which stream k emits an event
SseEmits(k) == Len(sse'[k].events) = Len(sse[k].events) + 1

C31_Step ==
    \A k \in Clients :
        SseEmits(k) =>
            LET r == RxRecv(relay, sse[k].rx)
                e == sse'[k].events[Len(sse'[k].events)]
            IN /\ sse'[k].events = Append(sse[k].events, e)
               /\ sse'[k].pc = "open"
               /\ \A j \in Clients \ {k} : sse'[j] = sse[j]
               /\ UNCHANGED <<relay, receivers, inner>>
               /\ r.kind = "lagged" =>
                     /\ e.event = "error"
                     /\ sse'[k].rx = Len(relay) - RelayCap
                     /\ RxRecv(relay', sse'[k].rx).kind = "ok"
               /\ r.kind = "ok" =>
                     /\ e.event = "message"
                     /\ e.data = <<relay[sse[k].rx + 1]>>
                     /\ sse'[k].rx = sse[k].rx + 1

\* C31: on GET /api/stream a relay lag signal (or a serialization failure)
\* becomes one in-band "error" event on that stream only: the stream stays
\* open and keeps forwarding later snapshots, one event per snapshot in
\* relay order, and no other consumer's stream is affected.
C31_ErrorEventInBand ==
    /\ [][C31_Step]_vars
    /\ [](\A k \in Clients :
            /\ sse[k].pc = "ended" => cancelled
            /\ \A i \in 1..Len(sse[k].events) :
                  /\ i > 1 => sse[k].events[i].idx > sse[k].events[i - 1].idx
                  /\ sse[k].events[i].event = "message" =>
                        sse[k].events[i].data = <<relay[sse[k].events[i].idx]>>)

\* one stream lagged behind two sends and got the error event and then the
\* retained snapshot, while the other stream got both snapshots and no error
C31_Witness ==
    \E k \in Clients, j \in Clients :
        /\ k # j
        /\ Len(relay) = 2
        /\ sse[k].pc = "open"
        /\ Len(sse[k].events) = 2
        /\ sse[k].events[1].event = "error"
        /\ sse[k].events[2] = [event |-> "message", data |-> <<relay[2]>>, idx |-> 2]
        /\ Len(sse[j].events) = 2
        /\ sse[j].events[1] = [event |-> "message", data |-> <<relay[1]>>, idx |-> 1]
        /\ sse[j].events[2] = [event |-> "message", data |-> <<relay[2]>>, idx |-> 2]

C32_Step ==
    cancelled => \A k \in Clients : sse'[k].events = sse[k].events

\* C32: every open GET /api/stream stream terminates once the process-wide
\* shutdown signal fires: after the signal no further snapshot event is
\* emitted on it, even if snapshots are still being sent on the relay.
C32_StreamEndsOnShutdown ==
    /\ [][C32_Step]_vars
    /\ \A k \in Clients : (cancelled /\ sse[k].pc = "open") ~> (sse[k].pc = "ended")

\* a stream ended by shutdown with a snapshot of the relay left unforwarded
C32_Witness ==
    \E k \in Clients :
        /\ cancelled
        /\ sse[k].pc = "ended"
        /\ sse[k].sub = 0
        /\ Len(relay) = 2
        /\ sse[k].rx = 1
        /\ Len(sse[k].events) = 1

----------------------------------------------------------------------------
(* Properties of the HTTP gateway: REST reads (Spec, SpecGateway)           *)

\* C33: GET /api/metrics answers 404 with the error body "no data yet" if
\* and only if the buffer is empty; otherwise it answers 200 with the
\* buffer's latest snapshot; RPC latest() returns exactly
\* MetricsBuffer::latest().
C33_LatestOrNotFound ==
    /\ ret.op = "get_latest" =>
          /\ ret.status \in {200, 404}
          /\ ret.status = 404 <=> inner = <<>>
          /\ ret.status = 404 => (ret.error = "no data yet" /\ ret.val = <<>>)
          /\ ret.status = 200 => (ret.error = "" /\ ret.val = <<inner[Len(inner)]>>)
    /\ ret.op = "rpc_latest" =>
          ret.val = IF inner = <<>> THEN <<>> ELSE <<inner[Len(inner)]>>

\* GET /api/metrics on a buffer that can hold data but has none yet
C33_Witness ==
    /\ capacity > 0
    /\ pushed = <<>>
    /\ ret.op = "get_latest"
    /\ ret.status = 404
    /\ ret.error = "no data yet"

\* C34: GET /api/health answers 200 with status "ok" in every state of the
\* system: empty or full buffer, with or without relay consumers, before
\* and after shutdown is signalled.
C34_HealthConstant ==
    ret.op = "health" => (ret.status = 200 /\ ret.val = <<[status |-> "ok"]>>)

\* health answered after shutdown, the buffer full, no stream left open
C34_Witness ==
    /\ ret.op = "health"
    /\ ret.status = 200
    /\ cancelled
    /\ Len(inner) = capacity
    /\ \A k \in Clients : sse[k].pc = "ended"

\* C38: for every buffer content, limit and since_ms, RPC history(limit,
\* since_ms) returns the same sequence as GET /api/history with the same
\* limit and since_ms and no until_ms; with since_ms absent both equal
\* MetricsBuffer::history(limit).
C38_HistoryRpcEqualsHttp ==
    /\ ret.op = "rpc_history" =>
          /\ ret.val = GetHistory(inner, ret.args[1], ret.args[2], <<>>).body
          /\ ret.args[2] = <<>> => ret.val = BufHistory(inner, ret.args[1])
    /\ (ret.op = "get_history" /\ ret.args[3] = <<>>) =>
          /\ ret.val = RpcHistory(inner, ret.args[1], ret.args[2])
          /\ ret.args[2] = <<>> => ret.val = BufHistory(inner, ret.args[1])

\* GET /api/history?limit=1&since_ms=1 on a buffer whose newest snapshot is
\* older than since_ms: the answer is not the buffer's own history(1)
C38_Witness ==
    /\ ret.op = "get_history"
    /\ ret.args = <<<<1>>, <<1>>, <<>>>>
    /\ Len(inner) = 2
    /\ ret.val = <<inner[1]>>
    /\ ret.val # BufHistory(inner, <<1>>)

----------------------------------------------------------------------------
(* The Sampler's delta baseline across counter resets (SpecSampler)         *)

\* a step in which the Sampler publishes a snapshot
PublishStep == Len(published') = Len(published) + 1

C39_Step ==
    PublishStep =>
        LET p == published'[Len(published')]
        IN /\ sam'.last_rx_total = p.snap.rx_bytes_total
           /\ sam'.last_tx_total = p.snap.tx_bytes_total
           /\ sam'.last_time = p.at

\* the rate the sample after prev must carry for a counter that read total
ExpectedRate(rate, total, prev_total, dt) ==
    IF total >= prev_total
    THEN rate.num = (total - prev_total) * 1000000 /\ rate.den = dt
    ELSE rate = ZeroRate

----------------------------------------------------------------------------
(* Wake-ups of the long-poll (SpecRpc)                                      *)

\* a step in which the call of caller c ends by its timeout
NaTimesOut(c) ==
    /\ na[c].pc = "wait"
    /\ na'[c].pc = "done"
    /\ na'[c].path = "timeout"

C35_Step ==
    \A c \in Callers :
        NaTimesOut(c) =>
            \A j \in (na[c].tail + 1)..Len(relay) : ~NaAccepts(relay[j], na[c].since)

\* C35 as stated: no lost wake-up in next_after: if a snapshot with
\* timestamp_ms > since_ms is published after the call starts and before its
\* wait budget ends, the call does not time out, also when the publish falls
\* between the fast-path read of buffer.latest() and the relay subscribe.
C35_NoLostWakeup == [][C35_Step]_vars

----------------------------------------------------------------------------
(* The Streamer's output against the server's publishes (SpecPipeline)      *)

C36_Step == str'.since_ms >= str.since_ms

\* C36: provided all server timestamps fit in u64, the snapshots a Streamer
\* hands to on_snapshot have strictly increasing timestamp_ms and are a
\* subsequence of the snapshots the server published (no duplicates, no
\* reordering, server snapshots may be skipped), also across no-data
\* results, transport errors and reconnects; the cursor never decreases.
C36_HandedIsSubsequence ==
    /\ [][C36_Step]_vars
    /\ []((\A i \in 1..Len(pushed) : pushed[i].ts <= U64Max) =>
            /\ \A i \in 1..Len(str.handed) :
                  /\ str.handed[i].snap.id \in 1..Len(pushed)
                  /\ str.handed[i].snap = pushed[str.handed[i].snap.id]
            /\ \A i \in 1..(Len(str.handed) - 1) :
                  /\ str.handed[i].snap.ts < str.handed[i + 1].snap.ts
                  /\ str.handed[i].snap.id < str.handed[i + 1].snap.id
            /\ str.since_ms = IF str.handed = <<>> THEN 0
                              ELSE str.handed[Len(str.handed)].snap.ts)

\* two snapshots handed on, the second over a new connection after a
\* transport error
C36_Witness ==
    /\ Len(str.handed) = 2
    /\ str.handed[1].client = <<1>>
    /\ str.handed[2].client = <<2>>
    /\ str.handed[1].snap.ts = 1
    /\ str.handed[2].snap.ts = 2
    /\ str.calls = 3
    /\ str.since_ms = 2

----------------------------------------------------------------------------
(* Requests on the RPC server's connections (SpecConn) and shutdown         *)
(* (SpecServer)                                                             *)

\* C37 as stated: in run_rpc_server a pending next_after long-poll never
\* delays the answer to a latest or history request, whether that request
\* arrives on another connection or on the connection of the pending
\* next_after: on a runtime that is never late it is answered when it arrives.
C37_LongPollNeverDelays ==
    \A k \in Conns :
        \A i \in 1..Len(conn[k].answered) :
            conn[k].answered[i].req.op \in {"latest", "history"} =>
                conn[k].answered[i].at = conn[k].answered[i].req.arrived

C40_Step ==
    /\ (cancelled /\ sam.pc = "select" /\ sam' # sam) => sam'.pc = "stopped"
    /\ (cancelled /\ rpcsrv = "listening" /\ rpcsrv' # rpcsrv) => rpcsrv' = "stopped"

\* C40 as stated: after the cancellation signal fires, Aggregator::run and
\* run_rpc_server each exit at their next wait (their next step after the
\* signal is the exit), so that the joins in the server's main complete.
C40_ExitAtNextWait == [][C40_Step]_vars

====
